---------------------------- MODULE Spec2Model ----------------------------
(***************************************************************************)
(* A model of the text transformation core of the-foundry-site: the inline *)
(* and block mechanic renderers (src/src/lib/iron-vault-inline.ts and      *)
(* src/src/lib/dataview.ts) and the dataview query engine                  *)
(* (src/src/lib/dataview.ts).                                              *)
(*                                                                         *)
(* A JavaScript string is a sequence of one-character strings, so that     *)
(* trim, split, startsWith, the regular expressions and the case           *)
(* conversions are computed character by character as the code does.       *)
(***************************************************************************)
EXTENDS Integers, Sequences, FiniteSets, TLC

VARIABLES
    (* mechanic renderers *)
    mpc,        \* position of the mechanics run: "input" or "rendered"
    directive,  \* the directive handed to a renderer: [form, code]
    fragment,   \* what the renderer returned
    node,       \* the syntax tree node of the directive: [type, value]
    (* dataview query engine *)
    pc,         \* position of the query run: "start", "parsed", "executed", "rendered"
    query,      \* the query text, as its sequence of physical lines
    files,      \* reference of the input document array (options.allFiles)
    parsed,     \* the DataviewQuery returned by parseDataviewQuery
    results,    \* reference of the array returned by executeDataviewQuery
    heap,       \* the arrays of the run, by reference
    output,     \* the node value written by the dataview visitor
    (* callout pass *)
    cpc,        \* position of the callout pass: "scan" or "done"
    co,         \* the locals of processCallouts: lines, i, result, inCallout, ...
    (* mechanics block parser *)
    bpc,        \* position of the block parser: "scan" or "done"
    blk,        \* the locals of parseIronVaultBlock: lines, results, i
    (* markdown pre-processing *)
    ppc,        \* the last pass of processMarkdown that has run
    md,         \* the arguments and locals of processMarkdown
    (* browser link fixer *)
    dom,            \* the elements of document.body the script looks for, in document order
    searchIndex,    \* the search index of the script, null until a fetch succeeds
    debounceTimer,  \* the timer of the observer: "none" or "set"
    records,        \* the mutation records not yet handed to the observer
    lpc,            \* the script's position: observing, title linked, calls of processLinks in flight
    hist            \* what has happened: additions from outside, timers set, runs

vars ==
    <<mpc, directive, fragment, node, pc, query, files, parsed, results, heap, output,
      cpc, co, bpc, blk, ppc, md, dom, searchIndex, debounceTimer, records, lpc, hist>>

mechVars == <<mpc, directive, fragment, node>>
queryVars == <<pc, query, files, parsed, results, heap, output>>
calloutVars == <<cpc, co>>
blockVars == <<bpc, blk>>
markdownVars == <<ppc, md>>
linkVars == <<dom, searchIndex, debounceTimer, records, lpc, hist>>

-----------------------------------------------------------------------------
(* Characters.  Ascii lists the printable characters in code-unit order;   *)
(* Ascii[i] has code 31 + i.  The grave accent (code 96) is written        *)
(* "grave": it holds the place and occurs in no modelled text.             *)

Ascii ==
    <<" ", "!", "\"", "#", "$", "%", "&", "'", "(", ")", "*", "+", ",", "-", ".", "/",
      "0", "1", "2", "3", "4", "5", "6", "7", "8", "9", ":", ";", "<", "=", ">", "?",
      "@", "A", "B", "C", "D", "E", "F", "G", "H", "I", "J", "K", "L", "M", "N", "O",
      "P", "Q", "R", "S", "T", "U", "V", "W", "X", "Y", "Z", "[", "\\", "]", "^", "_",
      "grave", "a", "b", "c", "d", "e", "f", "g", "h", "i", "j", "k", "l", "m", "n", "o",
      "p", "q", "r", "s", "t", "u", "v", "w", "x", "y", "z", "{", "|", "}", "~">>

Chars == {Ascii[i] : i \in 1..Len(Ascii)}

CodeOf == [c \in Chars |-> CHOOSE i \in 1..Len(Ascii) : Ascii[i] = c]

Digits == <<"0", "1", "2", "3", "4", "5", "6", "7", "8", "9">>

IsDigit(c) == CodeOf[c] >= CodeOf["0"] /\ CodeOf[c] <= CodeOf["9"]

DigitVal(c) == CodeOf[c] - CodeOf["0"]

IsUpper(c) == CodeOf[c] >= CodeOf["A"] /\ CodeOf[c] <= CodeOf["Z"]

IsLower(c) == CodeOf[c] >= CodeOf["a"] /\ CodeOf[c] <= CodeOf["z"]

\* the white space of \s and of trim() that the modelled texts contain
IsSpace(c) == c \in {" ", "\n", "\r"}

UpperOf == [c \in Chars |-> IF IsLower(c) THEN Ascii[CodeOf[c] - 32] ELSE c]

LowerOf == [c \in Chars |-> IF IsUpper(c) THEN Ascii[CodeOf[c] + 32] ELSE c]

-----------------------------------------------------------------------------
(* String.prototype methods, on sequences of characters.                   *)

ToUpperCase(s) == [i \in 1..Len(s) |-> IF s[i] \in Chars THEN UpperOf[s[i]] ELSE s[i]]

ToLowerCase(s) == [i \in 1..Len(s) |-> IF s[i] \in Chars THEN LowerOf[s[i]] ELSE s[i]]

\* s.substring(k) with a 0-based k
SubstringFrom(s, k) == IF k >= Len(s) THEN <<>> ELSE SubSeq(s, k + 1, Len(s))

\* s.substring(a, b) with 0-based a <= b
Substring(s, a, b) == IF a >= b THEN <<>> ELSE SubSeq(s, a + 1, b)

StartsWith(s, p) == Len(p) <= Len(s) /\ SubSeq(s, 1, Len(p)) = p

EndsWith(s, p) == Len(p) <= Len(s) /\ SubSeq(s, Len(s) - Len(p) + 1, Len(s)) = p

\* s.indexOf(c) for a character c, 0-based, -1 when absent
IndexOf(s, c) ==
    IF \E i \in 1..Len(s) : s[i] = c
    THEN (CHOOSE i \in 1..Len(s) : s[i] = c /\ \A j \in 1..(i - 1) : s[j] # c) - 1
    ELSE -1

\* the number of leading characters of s that satisfy the test given as a set
LeadingIn(s, set) ==
    IF \E i \in 1..Len(s) : s[i] \notin set
    THEN (CHOOSE i \in 1..Len(s) : s[i] \notin set /\ \A j \in 1..(i - 1) : s[j] \in set) - 1
    ELSE Len(s)

\* the number of trailing characters of s that are in set
TrailingIn(s, set) ==
    IF \E i \in 1..Len(s) : s[i] \notin set
    THEN Len(s) - (CHOOSE i \in 1..Len(s) : s[i] \notin set /\ \A j \in (i + 1)..Len(s) : s[j] \in set)
    ELSE Len(s)

Spaces == {" ", "\n", "\r"}

Trim(s) ==
    LET a == LeadingIn(s, Spaces)
    IN  IF a = Len(s) THEN <<>> ELSE SubSeq(s, a + 1, Len(s) - TrailingIn(s, Spaces))

\* s.split(c) for a one-character separator c: always at least one part
RECURSIVE Split(_, _)
Split(s, c) ==
    LET k == IndexOf(s, c)
    IN  IF k = -1 THEN <<s>>
        ELSE <<Substring(s, 0, k)>> \o Split(SubstringFrom(s, k + 1), c)

\* parts.join(c)
RECURSIVE Join(_, _)
Join(parts, c) ==
    IF Len(parts) = 0 THEN <<>>
    ELSE IF Len(parts) = 1 THEN parts[1]
    ELSE parts[1] \o c \o Join(Tail(parts), c)

\* String(n) for an integer n >= 0
RECURSIVE NumToStr(_)
NumToStr(n) ==
    IF n < 10 THEN <<Digits[n + 1]>>
    ELSE NumToStr(n \div 10) \o <<Digits[(n % 10) + 1]>>

\* the value of a string of digits
RECURSIVE DigitsVal(_)
DigitsVal(s) ==
    IF Len(s) = 0 THEN 0
    ELSE 10 * DigitsVal(SubSeq(s, 1, Len(s) - 1)) + DigitVal(s[Len(s)])

NaN == [nan |-> TRUE, n |-> 0]

Num(n) == [nan |-> FALSE, n |-> n]

\* parseInt(s): leading white space, an optional sign, then the longest run
\* of digits; NaN when there is no digit there (also for undefined)
ParseInt(s) ==
    LET t    == SubstringFrom(s, LeadingIn(s, Spaces))
        neg  == Len(t) > 0 /\ t[1] = "-"
        u    == IF Len(t) > 0 /\ t[1] \in {"-", "+"} THEN Tail(t) ELSE t
        k    == LeadingIn(u, {c \in Chars : IsDigit(c)})
        v    == DigitsVal(SubSeq(u, 1, k))
    IN  IF k = 0 THEN NaN ELSE Num(IF neg THEN 0 - v ELSE v)

\* x || d for a number x: NaN and 0 are falsy
OrNum(x, d) == IF x.nan \/ x.n = 0 THEN d ELSE x.n

\* parts[i] for a 0-based i; undefined is the absent part
HasPart(parts, i) == i + 1 <= Len(parts)

\* parts[i] || '' for a 0-based i
PartOrEmpty(parts, i) == IF HasPart(parts, i) THEN parts[i + 1] ELSE <<>>

\* a variant that takes an absent part as one
PartIntAbsentOne(parts, i, d) ==
    IF HasPart(parts, i) THEN OrNum(ParseInt(parts[i + 1]), d) ELSE 1

\* parseInt(parts[i]) || d
PartInt(parts, i, d) ==
    IF HasPart(parts, i) THEN OrNum(ParseInt(parts[i + 1]), d) ELSE d

-----------------------------------------------------------------------------
(* Regular expressions.  A pattern is a sequence of elements, matched from *)
(* a position of the string:                                               *)
(*   [t |-> "lit", v |-> chars]   the literal text                         *)
(*   [t |-> "ws1"]                \s+                                      *)
(*   [t |-> "digits"]             (\d+), captured                          *)
(*   [t |-> "not", v |-> chars]   ([^...]+), captured                      *)
(*   [t |-> "notall", v |-> chars] the same in a text that holds line      *)
(*                                breaks                                   *)
(* Every repeated element of the patterns below is followed by an element  *)
(* that cannot begin with a character of its class (or by nothing), so the *)
(* greedy match is the only match and no backtracking is modelled.         *)

Lit(v) == [t |-> "lit", v |-> v]

Ws1 == [t |-> "ws1", v |-> <<>>]

DigitsCap == [t |-> "digits", v |-> <<>>]

NotCap(v) == [t |-> "not", v |-> v]

ClassOf(e) ==
    CASE e.t = "ws1" -> Spaces
      [] e.t = "digits" -> {c \in Chars : IsDigit(c)}
      [] e.t = "not" -> Chars \ {e.v[i] : i \in 1..Len(e.v)}
      [] e.t = "notall" -> (Chars \cup {"\n", "\r"}) \ {e.v[i] : i \in 1..Len(e.v)}
      [] OTHER -> {}

NotCapAll(v) == [t |-> "notall", v |-> v]

NoMatch == [ok |-> FALSE, from |-> 0, to |-> 0, caps |-> <<>>]

\* the match of pattern pat at the 1-based position i of s, begun at i0:
\* the match is s[from .. to - 1] and caps are the captured groups
RECURSIVE MatchAt(_, _, _, _, _)
MatchAt(s, i0, i, pat, caps) ==
    IF Len(pat) = 0 THEN [ok |-> TRUE, from |-> i0, to |-> i, caps |-> caps]
    ELSE LET e == pat[1]
             rest == SubSeq(s, i, Len(s))
         IN  IF e.t = "lit"
             THEN IF StartsWith(rest, e.v)
                  THEN MatchAt(s, i0, i + Len(e.v), Tail(pat), caps)
                  ELSE NoMatch
             ELSE LET k == LeadingIn(rest, ClassOf(e))
                  IN  IF k = 0 THEN NoMatch
                      ELSE MatchAt(s, i0, i + k, Tail(pat),
                                   IF e.t = "ws1" THEN caps
                                   ELSE Append(caps, SubSeq(rest, 1, k)))

\* s.match(pat) for an unanchored pattern: the leftmost match
Search(s, pat) ==
    IF \E i \in 1..Len(s) : MatchAt(s, i, i, pat, <<>>).ok
    THEN LET i == CHOOSE i \in 1..Len(s) :
                      /\ MatchAt(s, i, i, pat, <<>>).ok
                      /\ \A j \in 1..(i - 1) : ~MatchAt(s, j, j, pat, <<>>).ok
         IN  MatchAt(s, i, i, pat, <<>>)
    ELSE NoMatch

SeqRange(q) == {q[i] : i \in 1..Len(q)}

\* s.includes(sub)
Includes(s, sub) ==
    \E i \in 1..(Len(s) - Len(sub) + 1) : SubSeq(s, i, i + Len(sub) - 1) = sub

\* s with the characters of set removed: s.replace(/[set]/g, '')
RemoveChars(s, set) ==
    LET Keep(c) == c \notin set
    IN  SelectSeq(s, Keep)

\* s.replace(/\s+/g, '-')
RECURSIVE ReplaceSpaceRuns(_)
ReplaceSpaceRuns(s) ==
    IF Len(s) = 0 THEN <<>>
    ELSE LET k == LeadingIn(s, Spaces)
         IN  IF k > 0 THEN <<"-">> \o ReplaceSpaceRuns(SubstringFrom(s, k))
             ELSE <<s[1]>> \o ReplaceSpaceRuns(Tail(s))

DotMd == <<".", "m", "d">>

\* s.replace(/\.md$/, '')
StripMd(s) == IF EndsWith(s, DotMd) THEN SubSeq(s, 1, Len(s) - 3) ELSE s

-----------------------------------------------------------------------------
(* Inline mechanic renderer, src/src/lib/iron-vault-inline.ts.  A rendered *)
(* fragment keeps the class list of its outer element, the name, the       *)
(* numbers and the texts it shows and the target of its link; null is the  *)
(* passthrough signal.                                                     *)

NullFragment ==
    [kind |-> "null", classes |-> <<>>, name |-> <<>>, nums |-> <<>>,
     texts |-> <<>>, matchShown |-> FALSE, href |-> <<>>]

Span(classes, name, nums, texts, matchShown, href) ==
    [kind |-> "html", classes |-> classes, name |-> name, nums |-> nums,
     texts |-> texts, matchShown |-> matchShown, href |-> href]

\* the lookup table is optional: an absent one is undefined
NoFilesByName == [defined |-> FALSE, entries |-> {}]

pathToSlug(path) ==
    IF Len(path) = 0 THEN <<"#">>
    ELSE <<"/">> \o RemoveChars(ReplaceSpaceRuns(ToLowerCase(StripMd(path))),
                                {"(", ")", "'"})

\* pathToSlug of the content loader, which gives a document its slug
pathToSlug_content(filePath) ==
    RemoveChars(ReplaceSpaceRuns(ToLowerCase(StripMd(Join(Split(filePath, "\\"), <<"/">>)))),
                {"(", ")", "'"})

resolvePathToSlug(path, filesByName) ==
    IF Len(path) = 0 THEN <<"#">>
    ELSE LET segs      == Split(Join(Split(StripMd(path), "\\"), <<"/">>), "/")
             filename  == segs[Len(segs)]
             lookupKey == ToLowerCase(filename)
         IN  IF filesByName.defined /\ \E e \in filesByName.entries : e.key = lookupKey
             THEN (CHOOSE e \in filesByName.entries : e.key = lookupKey).slug
             ELSE pathToSlug(path)

\* getOutcome with >= in place of >
getOutcomeGe(score, vs1, vs2) ==
    IF score >= vs1 /\ score >= vs2 THEN "strong-hit"
    ELSE IF score >= vs1 \/ score >= vs2 THEN "weak-hit"
    ELSE "miss"

getOutcome(score, vs1, vs2) ==
    IF score > vs1 /\ score > vs2 THEN "strong-hit"
    ELSE IF score > vs1 \/ score > vs2 THEN "weak-hit"
    ELSE "miss"

\* isMatch with >= in place of ===
isMatchAtLeast(vs1, vs2) == vs1 >= vs2

isMatch(vs1, vs2) == vs1 = vs2

renderMove(content) ==
    LET parts     == Split(content, "|")
        name      == PartOrEmpty(parts, 0)
        stat      == PartOrEmpty(parts, 1)
        action    == PartInt(parts, 2, 0)
        statValue == PartInt(parts, 3, 0)
        adds      == PartInt(parts, 4, 0)
        vs1       == PartInt(parts, 5, 0)
        vs2       == PartInt(parts, 6, 0)
        score     == action + statValue + adds
        outcome   == getOutcome(score, vs1, vs2)
        match     == isMatch(vs1, vs2)
        classes   == <<"iv-inline-mechanics", outcome>>
                         \o (IF match THEN <<"match">> ELSE <<>>)
    IN  Span(classes, name, <<score, vs1, vs2>>, <<stat>>, match, <<>>)

renderOracle(content) ==
    LET parts  == Split(content, "|")
        name   == PartOrEmpty(parts, 0)
        roll   == PartOrEmpty(parts, 1)
        result == PartOrEmpty(parts, 2)
    IN  Span(<<"iv-inline-mechanics", "oracle">>, name, <<>>, <<roll, result>>, FALSE, <<>>)

renderMeter(content) ==
    LET parts   == Split(content, "|")
        name    == PartOrEmpty(parts, 0)
        fromVal == PartInt(parts, 1, 0)
        to      == PartInt(parts, 2, 0)
        delta   == to - fromVal
        meterClass == IF delta > 0 THEN "meter-increase"
                      ELSE IF delta < 0 THEN "meter-decrease" ELSE ""
    IN  Span(<<"iv-inline-mechanics", meterClass>>, name, <<fromVal, to>>, <<>>, FALSE, <<>>)

Control == <<"c", "o", "n", "t", "r", "o", "l">>

renderInitiative(content) ==
    LET parts == Split(content, "|")
        label == PartOrEmpty(parts, 0)
        to    == IF Len(PartOrEmpty(parts, 2)) > 0 THEN PartOrEmpty(parts, 2)
                 ELSE PartOrEmpty(parts, 1)
        inControl == Includes(ToLowerCase(to), Control)
        initClass == IF inControl THEN "initiative-control" ELSE "initiative-bad-spot"
    IN  Span(<<"iv-inline-mechanics", initClass>>, label, <<>>, <<to>>, FALSE, <<>>)

renderTrackCreate(content, baseUrl, filesByName) ==
    LET parts == Split(content, "|")
        name  == PartOrEmpty(parts, 0)
        path  == PartOrEmpty(parts, 1)
        slug  == resolvePathToSlug(path, filesByName)
    IN  Span(<<"iv-inline-mechanics", "track-create">>, name, <<>>, <<>>, FALSE,
             baseUrl \o <<"/">> \o slug)

renderTrackAdvance(content, baseUrl, filesByName) ==
    LET parts == Split(content, "|")
        name  == PartOrEmpty(parts, 0)
        path  == PartOrEmpty(parts, 1)
        to    == PartInt(parts, 3, 0)
        steps == PartInt(parts, 5, 1)
        slug  == resolvePathToSlug(path, filesByName)
        boxes == to \div 4
    IN  Span(<<"iv-inline-mechanics", "track-advance">>, name, <<steps, boxes>>, <<>>, FALSE,
             baseUrl \o <<"/">> \o slug)

renderProgressRoll(content) ==
    LET parts    == Split(content, "|")
        name     == PartOrEmpty(parts, 0)
        progress == PartInt(parts, 1, 0)
        vs1      == PartInt(parts, 2, 0)
        vs2      == PartInt(parts, 3, 0)
        outcome  == getOutcome(progress, vs1, vs2)
        match    == isMatch(vs1, vs2)
        classes  == <<"iv-inline-mechanics", outcome>>
                        \o (IF match THEN <<"match">> ELSE <<>>)
    IN  Span(classes, name, <<progress, vs1, vs2>>, <<>>, FALSE, <<>>)

renderNoRoll(content) ==
    LET parts == Split(content, "|")
    IN  Span(<<"iv-inline-mechanics", "no-roll">>, PartOrEmpty(parts, 0), <<>>, <<>>,
             FALSE, <<>>)

renderEntityCreate(content, baseUrl, filesByName) ==
    LET parts == Split(content, "|")
        type  == PartOrEmpty(parts, 0)
        name  == PartOrEmpty(parts, 1)
        path  == PartOrEmpty(parts, 2)
        slug  == resolvePathToSlug(path, filesByName)
    IN  Span(<<"iv-inline-mechanics", "entity-create">>, name, <<>>, <<type>>, FALSE,
             baseUrl \o <<"/">> \o slug)

IvPrefix == <<"i", "v", "-">>

IvKind(kind) == IvPrefix \o kind

KindMove == <<"m", "o", "v", "e">>

KindOracle == <<"o", "r", "a", "c", "l", "e">>

KindMeter == <<"m", "e", "t", "e", "r">>

KindInitiative == <<"i", "n", "i", "t", "i", "a", "t", "i", "v", "e">>

KindTrackCreate == <<"t", "r", "a", "c", "k", "-", "c", "r", "e", "a", "t", "e">>

KindTrackAdvance == <<"t", "r", "a", "c", "k", "-", "a", "d", "v", "a", "n", "c", "e">>

KindProgress == <<"p", "r", "o", "g", "r", "e", "s", "s">>

KindNoRoll == <<"n", "o", "r", "o", "l", "l">>

KindEntityCreate == <<"e", "n", "t", "i", "t", "y", "-", "c", "r", "e", "a", "t", "e">>

\* a variant that renders every kind it does not know as a move without roll
parseInlineMechanicAnyKind(code, baseUrl, filesByName) ==
    IF ~StartsWith(code, IvPrefix) \/ IndexOf(code, ":") = -1 THEN NullFragment
    ELSE renderNoRoll(SubstringFrom(code, IndexOf(code, ":") + 1))

parseInlineMechanic(code, baseUrl, filesByName) ==
    IF ~StartsWith(code, IvPrefix) THEN NullFragment
    ELSE LET colonIndex == IndexOf(code, ":")
             type       == Substring(code, 0, colonIndex)
             content    == SubstringFrom(code, colonIndex + 1)
         IN  IF colonIndex = -1 THEN NullFragment
             ELSE CASE type = IvKind(KindMove) -> renderMove(content)
                    [] type = IvKind(KindOracle) -> renderOracle(content)
                    [] type = IvKind(KindMeter) -> renderMeter(content)
                    [] type = IvKind(KindInitiative) -> renderInitiative(content)
                    [] type = IvKind(KindTrackCreate) ->
                           renderTrackCreate(content, baseUrl, filesByName)
                    [] type = IvKind(KindTrackAdvance) ->
                           renderTrackAdvance(content, baseUrl, filesByName)
                    [] type = IvKind(KindProgress) -> renderProgressRoll(content)
                    [] type = IvKind(KindNoRoll) -> renderNoRoll(content)
                    [] type = IvKind(KindEntityCreate) ->
                           renderEntityCreate(content, baseUrl, filesByName)
                    [] OTHER -> NullFragment

-----------------------------------------------------------------------------
(* Block move renderer, src/src/lib/dataview.ts.                           *)

getOutcome_block(score, vs1, vs2) ==
    IF score > vs1 /\ score > vs2 THEN "strong-hit"
    ELSE IF score > vs1 \/ score > vs2 THEN "weak-hit"
    ELSE "miss"

Quote == <<"\"">>

\* /move\s+"([^"]+)"/
MoveNameRe == <<Lit(<<"m", "o", "v", "e">>), Ws1, Lit(Quote), NotCap(Quote), Lit(Quote)>>

\* /roll\s+"([^"]+)"\s+action=(\d+)\s+adds=(\d+)\s+stat=(\d+)\s+vs1=(\d+)\s+vs2=(\d+)/
MoveRollRe ==
    <<Lit(<<"r", "o", "l", "l">>), Ws1, Lit(Quote), NotCap(Quote), Lit(Quote),
      Ws1, Lit(<<"a", "c", "t", "i", "o", "n", "=">>), DigitsCap,
      Ws1, Lit(<<"a", "d", "d", "s", "=">>), DigitsCap,
      Ws1, Lit(<<"s", "t", "a", "t", "=">>), DigitsCap,
      Ws1, Lit(<<"v", "s", "1", "=">>), DigitsCap,
      Ws1, Lit(<<"v", "s", "2", "=">>), DigitsCap>>

\* /\[([^\]]+)\]\([^)]+\)/
MdLinkRe == <<Lit(<<"[">>), NotCap(<<"]">>), Lit(<<"]", "(">>), NotCap(<<")">>), Lit(<<")">>)>>

\* fullName.replace(/\[([^\]]+)\]\([^)]+\)/, '$1'): the first markdown link
\* of the text is replaced by its label
LinkLabel(fullName) ==
    LET m == Search(fullName, MdLinkRe)
    IN  IF ~m.ok THEN fullName
        ELSE SubSeq(fullName, 1, m.from - 1) \o m.caps[1] \o SubSeq(fullName, m.to, Len(fullName))

ParseError(what, line) ==
    Span(<<"iv-parse-error">>, line, <<>>, <<what>>, FALSE, <<>>)

parseMoveBlock(line) ==
    LET nameMatch == Search(line, MoveNameRe)
        rollMatch == Search(line, MoveRollRe)
    IN  IF ~nameMatch.ok \/ ~rollMatch.ok THEN ParseError(KindMove, line)
        ELSE LET name      == LinkLabel(nameMatch.caps[1])
                 stat      == rollMatch.caps[1]
                 action    == DigitsVal(rollMatch.caps[2])
                 adds      == DigitsVal(rollMatch.caps[3])
                 statValue == DigitsVal(rollMatch.caps[4])
                 vs1       == DigitsVal(rollMatch.caps[5])
                 vs2       == DigitsVal(rollMatch.caps[6])
                 score     == action + statValue + adds
                 outcome   == getOutcome_block(score, vs1, vs2)
                 match     == vs1 = vs2
             IN  Span(<<"move", outcome>> \o (IF match THEN <<"match">> ELSE <<>>),
                      name, <<score, vs1, vs2>>, <<stat>>, FALSE, <<>>)

-----------------------------------------------------------------------------
(* Dataview query parser, src/src/lib/dataview.ts.  A query text is the    *)
(* sequence of its physical lines (the text split at the line breaks).     *)

KwTableWithoutId == <<"T", "A", "B", "L", "E", " ", "W", "I", "T", "H", "O", "U", "T", " ", "I", "D">>

KwTable == <<"T", "A", "B", "L", "E">>

KwList == <<"L", "I", "S", "T">>

KwFrom == <<"F", "R", "O", "M">>

KwWhere == <<"W", "H", "E", "R", "E">>

KwSort == <<"S", "O", "R", "T">>

KwAsc == <<"A", "S", "C">>

NoSort == [present |-> FALSE, field |-> <<>>, direction |-> "DESC"]

\* const result: DataviewQuery = { type: 'TABLE', withoutId: false, ... }
EmptyQuery ==
    [isNull |-> FALSE, type |-> "TABLE", withoutId |-> FALSE, fields |-> <<>>,
     from |-> <<>>, where |-> <<>>, sort |-> NoSort]

\* the null of the return type DataviewQuery | null
NullQuery == [EmptyQuery EXCEPT !.isNull = TRUE]

\* fieldsStr.split(',').map(trim).filter(nonempty), [] for the empty text
parseFields(fieldsStr) ==
    IF Len(fieldsStr) = 0 THEN <<>>
    ELSE LET parts   == Split(fieldsStr, ",")
             trimmed == [i \in 1..Len(parts) |-> Trim(parts[i])]
             NonEmpty(f) == Len(f) > 0
         IN  SelectSeq(trimmed, NonEmpty)

OpenSet == {"\"", "'", "["}

CloseSet == {"\"", "'", "]"}

\* v.replace(/^["'[]+|["'\]]+$/g, '').trim()
StripLiteral(v) ==
    LET a == SubstringFrom(v, LeadingIn(v, OpenSet))
        b == SubSeq(a, 1, Len(a) - TrailingIn(a, CloseSet))
    IN  Trim(b)

NoClause == [ok |-> FALSE, field |-> <<>>, operator |-> "", value |-> <<>>]

\* whether /^(\S+)\s*op\s*(.+)$/ matches str with a first group of k characters
OpMatchAt(str, op, k) ==
    /\ k >= 1
    /\ k <= Len(str)
    /\ \A i \in 1..k : ~IsSpace(str[i])
    /\ LET j == k + LeadingIn(SubstringFrom(str, k), Spaces)
       IN  /\ StartsWith(SubstringFrom(str, j), op)
           /\ Len(str) > j + Len(op)

\* str.match(/^(\S+)\s*op\s*(.+)$/): the first group is greedy, so it is the
\* longest one with which the rest still matches
OpMatch(str, op) ==
    IF \E k \in 1..Len(str) : OpMatchAt(str, op, k)
    THEN LET k == CHOOSE k \in 1..Len(str) :
                      /\ OpMatchAt(str, op, k)
                      /\ \A k2 \in (k + 1)..Len(str) : ~OpMatchAt(str, op, k2)
             j == k + LeadingIn(SubstringFrom(str, k), Spaces)
             r == SubstringFrom(str, j + Len(op))
             sp == LeadingIn(r, Spaces)
         IN  [ok |-> TRUE, field |-> SubSeq(str, 1, k),
              rhs |-> IF sp = Len(r) THEN <<r[Len(r)]>> ELSE SubstringFrom(r, sp)]
    ELSE [ok |-> FALSE, field |-> <<>>, rhs |-> <<>>]

\* the clause parser with a clause for a text that is no comparison
parseWhereClauseLoose(str) ==
    LET eqMatch  == OpMatch(str, <<"=">>)
        neqMatch == OpMatch(str, <<"!", "=">>)
    IN  IF eqMatch.ok
        THEN [ok |-> TRUE, field |-> eqMatch.field, operator |-> "=",
              value |-> StripLiteral(eqMatch.rhs)]
        ELSE IF neqMatch.ok
        THEN [ok |-> TRUE, field |-> neqMatch.field, operator |-> "!=",
              value |-> StripLiteral(neqMatch.rhs)]
        ELSE [ok |-> TRUE, field |-> str, operator |-> "=", value |-> <<>>]

parseWhereClause(str) ==
    LET eqMatch  == OpMatch(str, <<"=">>)
        neqMatch == OpMatch(str, <<"!", "=">>)
    IN  IF eqMatch.ok
        THEN [ok |-> TRUE, field |-> eqMatch.field, operator |-> "=",
              value |-> StripLiteral(eqMatch.rhs)]
        ELSE IF neqMatch.ok
        THEN [ok |-> TRUE, field |-> neqMatch.field, operator |-> "!=",
              value |-> StripLiteral(neqMatch.rhs)]
        ELSE NoClause

\* str.split(/\s+/)
RECURSIVE SplitSpaces(_)
SplitSpaces(str) ==
    IF \E i \in 1..Len(str) : IsSpace(str[i])
    THEN LET i == CHOOSE i \in 1..Len(str) :
                      IsSpace(str[i]) /\ \A j \in 1..(i - 1) : ~IsSpace(str[j])
             rest == SubstringFrom(str, i - 1)
         IN  <<SubSeq(str, 1, i - 1)>>
                 \o SplitSpaces(SubstringFrom(rest, LeadingIn(rest, Spaces)))
    ELSE <<str>>

\* the direction without the toUpperCase() call
DirectionAscOnlyUpper(token) == IF token = KwAsc THEN "ASC" ELSE "DESC"

\* parts[1]?.toUpperCase() === 'ASC' ? 'ASC' : 'DESC'
Direction(token) == IF ToUpperCase(token) = KwAsc THEN "ASC" ELSE "DESC"

parseSortClause(str) ==
    LET parts == SplitSpaces(str)
    IN  [present |-> TRUE, field |-> parts[1],
         direction |-> IF HasPart(parts, 1) THEN Direction(parts[2]) ELSE "DESC"]

\* one turn of the loop over the lines
ParseLine(result, line) ==
    LET upperLine == ToUpperCase(line)
    IN  IF StartsWith(upperLine, KwTableWithoutId)
        THEN [result EXCEPT !.type = "TABLE", !.withoutId = TRUE,
                  !.fields = parseFields(Trim(SubstringFrom(line, Len(KwTableWithoutId))))]
        ELSE IF StartsWith(upperLine, KwTable)
        THEN [result EXCEPT !.type = "TABLE",
                  !.fields = parseFields(Trim(SubstringFrom(line, Len(KwTable))))]
        ELSE IF StartsWith(upperLine, KwList)
        THEN [result EXCEPT !.type = "LIST"]
        ELSE IF StartsWith(upperLine, KwFrom)
        THEN [result EXCEPT !.from = <<Trim(SubstringFrom(line, Len(KwFrom)))>>]
        ELSE IF StartsWith(upperLine, KwWhere)
        THEN LET whereClause == parseWhereClause(Trim(SubstringFrom(line, Len(KwWhere))))
             IN  IF whereClause.ok
                 THEN [result EXCEPT !.where = Append(@,
                           [field |-> whereClause.field, operator |-> whereClause.operator,
                            value |-> whereClause.value])]
                 ELSE result
        ELSE IF StartsWith(upperLine, KwSort)
        THEN [result EXCEPT !.sort = parseSortClause(Trim(SubstringFrom(line, Len(KwSort))))]
        ELSE result

RECURSIVE ParseLines(_, _)
ParseLines(result, lines) ==
    IF Len(lines) = 0 THEN result
    ELSE ParseLines(ParseLine(result, lines[1]), Tail(lines))

\* query.trim().split('\n').map(trim).filter(nonempty), then the loop; the
\* function has no path that returns null
parseDataviewQuery(text) ==
    LET trimmed == [i \in 1..Len(text) |-> Trim(text[i])]
        NonEmpty(l) == Len(l) > 0
        lines == SelectSeq(trimmed, NonEmpty)
    IN  ParseLines(EmptyQuery, lines)

-----------------------------------------------------------------------------
(* Documents.  A frontmatter value is undefined, a string, a number or an  *)
(* array of strings; a frontmatter is a function from field names.         *)

Undefined == [t |-> "undefined", s |-> <<>>, n |-> 0, a |-> <<>>]

StrV(s) == [t |-> "string", s |-> s, n |-> 0, a |-> <<>>]

NumV(n) == [t |-> "number", s |-> <<>>, n |-> n, a |-> <<>>]

ArrV(a) == [t |-> "array", s |-> <<>>, n |-> 0, a |-> a]

\* file.frontmatter[field]
Field(file, field) ==
    IF field \in DOMAIN file.frontmatter THEN file.frontmatter[field] ELSE Undefined

FileLink == <<"f", "i", "l", "e", ".", "l", "i", "n", "k">>

FileName == <<"f", "i", "l", "e", ".", "n", "a", "m", "e">>

FileMtime == <<"f", "i", "l", "e", ".", "m", "t", "i", "m", "e">>

TagsKey == <<"t", "a", "g", "s">>

LL == <<"[", "[">>

RR == <<"]", "]">>

getFieldValue(file, field) ==
    IF field = FileLink THEN StrV(file.title)
    ELSE IF field = FileName THEN StrV(file.title)
    ELSE IF field = FileMtime THEN NumV(0)
    ELSE LET value == Field(file, field)
         IN  IF value.t = "string" /\ StartsWith(value.s, LL) /\ EndsWith(value.s, RR)
             THEN StrV(SubSeq(value.s, 3, Len(value.s) - 2))
             ELSE value

\* s.replace(/^\[\[|\]\]$/g, '')
CleanLink(s) ==
    LET a == IF StartsWith(s, LL) THEN SubstringFrom(s, 2) ELSE s
    IN  IF EndsWith(a, RR) THEN SubSeq(a, 1, Len(a) - 2) ELSE a

\* the string comparison without the toLowerCase() calls
matchesStringCaseSensitive(actual, expected) ==
    CleanLink(actual) = CleanLink(expected)

matchesString(actual, expected) ==
    ToLowerCase(CleanLink(actual)) = ToLowerCase(CleanLink(expected))

matchesValue(actual, expected) ==
    CASE actual.t = "undefined" -> FALSE
      [] actual.t = "string" -> matchesString(actual.s, expected)
      [] actual.t = "array" ->
             \E i \in 1..Len(actual.a) : matchesString(actual.a[i], expected)
      [] OTHER -> NumToStr(actual.n) = CleanLink(expected)

\* the FROM filter with a bare prefix test, without folder + '/'
FromPassesPrefix(f, from) ==
    IF StartsWith(from, <<"#">>)
    THEN LET tag  == SubstringFrom(from, 1)
             tags == Field(f, TagsKey)
         IN  CASE tags.t = "array" -> \E i \in 1..Len(tags.a) : tags.a[i] = tag
               [] tags.t = "string" -> Len(tags.s) > 0 /\ tags.s = tag
               [] OTHER -> FALSE
    ELSE LET a == IF Len(from) > 0 /\ from[1] \in {"\"", "'"} THEN Tail(from) ELSE from
             b == IF Len(a) > 0 /\ a[Len(a)] \in {"\"", "'"}
                  THEN SubSeq(a, 1, Len(a) - 1) ELSE a
             folderPath == ToLowerCase(b)
             normalizedPath ==
                 ToLowerCase([i \in 1..Len(f.path) |->
                                  IF f.path[i] = "\\" THEN "/" ELSE f.path[i]])
         IN  StartsWith(normalizedPath, folderPath)

\* the filter callback of a FROM selector
FromPasses(f, from) ==
    IF StartsWith(from, <<"#">>)
    THEN LET tag  == SubstringFrom(from, 1)
             tags == Field(f, TagsKey)
         IN  CASE tags.t = "array" -> \E i \in 1..Len(tags.a) : tags.a[i] = tag
               [] tags.t = "string" -> Len(tags.s) > 0 /\ tags.s = tag
               [] OTHER -> FALSE
    ELSE LET a == IF Len(from) > 0 /\ from[1] \in {"\"", "'"} THEN Tail(from) ELSE from
             b == IF Len(a) > 0 /\ a[Len(a)] \in {"\"", "'"}
                  THEN SubSeq(a, 1, Len(a) - 1) ELSE a
             folderPath == ToLowerCase(b)
             normalizedPath ==
                 ToLowerCase([i \in 1..Len(f.path) |->
                                  IF f.path[i] = "\\" THEN "/" ELSE f.path[i]])
         IN  \/ StartsWith(normalizedPath, folderPath \o <<"/">>)
             \/ normalizedPath = folderPath

\* the WHERE filter without the negation for !=
WherePassesSame(f, where) ==
    matchesValue(getFieldValue(f, where.field), where.value)

\* the filter callback of a WHERE clause
WherePasses(f, where) ==
    IF where.operator = "=" THEN matchesValue(getFieldValue(f, where.field), where.value)
    ELSE IF where.operator = "!=" THEN ~matchesValue(getFieldValue(f, where.field), where.value)
    ELSE TRUE

\* the text a value becomes when `<` or `>` compares it: an array is joined
\* with commas
CommaJoin(a) == Join(a, <<",">>)

\* ToNumber of a string: white space trimmed, the empty text is 0, a run
\* of digits its value, any other text of the model NaN
StringToNumber(s) ==
    LET t == Trim(s)
    IN  IF \A i \in 1..Len(t) : IsDigit(t[i]) THEN Num(DigitsVal(t)) ELSE NaN

RECURSIVE StrLess(_, _)
StrLess(a, b) ==
    IF Len(b) = 0 THEN FALSE
    ELSE IF Len(a) = 0 THEN TRUE
    ELSE IF a[1] = b[1] THEN StrLess(Tail(a), Tail(b))
    ELSE CodeOf[a[1]] < CodeOf[b[1]]

\* aVal < bVal: two strings compare by code units, otherwise both sides
\* become numbers and a NaN side (undefined, a non-numeric text) makes the
\* comparison false
JsLess(x, y) ==
    LET px == IF x.t = "array" THEN StrV(CommaJoin(x.a)) ELSE x
        py == IF y.t = "array" THEN StrV(CommaJoin(y.a)) ELSE y
        ToNum(v) == CASE v.t = "number" -> Num(v.n)
                      [] v.t = "string" -> StringToNumber(v.s)
                      [] OTHER -> NaN
    IN  IF px.t = "string" /\ py.t = "string" THEN StrLess(px.s, py.s)
        ELSE /\ ~ToNum(px).nan
             /\ ~ToNum(py).nan
             /\ ToNum(px).n < ToNum(py).n

\* the comparator handed to results.sort
Compare(a, b, sort) ==
    LET aVal == getFieldValue(a, sort.field)
        bVal == getFieldValue(b, sort.field)
        direction == IF sort.direction = "ASC" THEN 1 ELSE -1
    IN  IF JsLess(aVal, bVal) THEN (-1) * direction
        ELSE IF JsLess(bVal, aVal) THEN 1 * direction
        ELSE 0

-----------------------------------------------------------------------------
(* Dataview query executor.  Arrays live in a heap and are held by         *)
(* reference, so that a sort in place is seen through every reference of   *)
(* the array: "in" is the caller's array, "out" the array the call builds. *)

\* a comparator is consistent on a set of documents when its `equal` and
\* its `less` are transitive on it
Consistent(docs, sort) ==
    \A a, b, c \in docs :
        /\ (Compare(a, b, sort) = 0 /\ Compare(b, c, sort) = 0) => Compare(a, c, sort) = 0
        /\ (Compare(a, b, sort) < 0 /\ Compare(b, c, sort) < 0) => Compare(a, c, sort) < 0

\* a variant that puts x in the place of the first element when it
\* precedes it
InsertReplacing(sorted, x, sort) ==
    IF Len(sorted) > 0 /\ Compare(x, sorted[1], sort) < 0 THEN <<x>> \o Tail(sorted)
    ELSE Append(sorted, x)

\* x put into a sorted sequence behind every element it does not precede
InsertSorted(sorted, x, sort) ==
    IF \E i \in 1..Len(sorted) : Compare(x, sorted[i], sort) < 0
    THEN LET i == CHOOSE i \in 1..Len(sorted) :
                      /\ Compare(x, sorted[i], sort) < 0
                      /\ \A j \in 1..(i - 1) : Compare(x, sorted[j], sort) >= 0
         IN  SubSeq(sorted, 1, i - 1) \o <<x>> \o SubSeq(sorted, i, Len(sorted))
    ELSE Append(sorted, x)

RECURSIVE StableSort(_, _)
StableSort(seq, sort) ==
    IF Len(seq) = 0 THEN <<>>
    ELSE InsertSorted(StableSort(SubSeq(seq, 1, Len(seq) - 1), sort), seq[Len(seq)], sort)

Orderings(seq) ==
    LET n == Len(seq)
    IN  {[i \in 1..n |-> seq[p[i]]] :
            p \in {f \in [1..n -> 1..n] : \A i, j \in 1..n : f[i] = f[j] => i = j}}

\* results.sort(comparator): the sort is stable when the comparator is a
\* consistent comparison of the elements; when it is not, the language
\* leaves the order to the implementation, and every order is an outcome
SortOutcomes(seq, sort) ==
    IF Consistent(SeqRange(seq), sort) THEN {StableSort(seq, sort)}
    ELSE Orderings(seq)

RECURSIVE FilterFrom(_, _)
FilterFrom(seq, froms) ==
    IF Len(froms) = 0 THEN seq
    ELSE LET Keep(f) == FromPasses(f, froms[1])
         IN  FilterFrom(SelectSeq(seq, Keep), Tail(froms))

RECURSIVE FilterWhere(_, _)
FilterWhere(seq, wheres) ==
    IF Len(wheres) = 0 THEN seq
    ELSE LET Keep(f) == WherePasses(f, wheres[1])
         IN  FilterWhere(SelectSeq(seq, Keep), Tail(wheres))

\* results = files, without the copy
SpreadAlias(h, ref) == [heap |-> h, ref |-> ref]

\* let results = [...files]: a new array with the elements of files
Spread(h, ref) == [heap |-> [h EXCEPT !["out"] = h[ref]], ref |-> "out"]

\* the runs of filter: each builds a new array; none runs for a query
\* without FROM and WHERE, and results stays the array it was
Filtered(m, q) ==
    IF Len(q.from) + Len(q.where) = 0 THEN m
    ELSE [heap |-> [m.heap EXCEPT !["out"] =
                        FilterWhere(FilterFrom(m.heap[m.ref], q.from), q.where)],
          ref |-> "out"]

\* the outcomes of executeDataviewQuery(q, files): the heap after the call
\* and the reference returned
executeDataviewQuery(q, h, filesRef) ==
    LET m == Filtered(Spread(h, filesRef), q)
    IN  IF q.sort.present
        THEN {[heap |-> [m.heap EXCEPT ![m.ref] = sorted], ref |-> m.ref] :
                 sorted \in SortOutcomes(m.heap[m.ref], q.sort)}
        ELSE {m}

-----------------------------------------------------------------------------
(* Dataview result renderer.  The rendered HTML is kept as its structure:  *)
(* the placeholder, a list of anchors, or a table of header cells and rows *)
(* of cells.                                                               *)

EscapeChar(c) ==
    CASE c = "&" -> <<"&", "a", "m", "p", ";">>
      [] c = "<" -> <<"&", "l", "t", ";">>
      [] c = ">" -> <<"&", "g", "t", ";">>
      [] c = "\"" -> <<"&", "q", "u", "o", "t", ";">>
      [] OTHER -> <<c>>

RECURSIVE escapeHtml(_)
escapeHtml(text) ==
    IF Len(text) = 0 THEN <<>> ELSE EscapeChar(text[1]) \o escapeHtml(Tail(text))

TextCell(text) == [link |-> FALSE, href |-> <<>>, text |-> text]

LinkCell(href, text) == [link |-> TRUE, href |-> href, text |-> text]

\* formatValue of an array element or of a scalar
FormatScalar(s) ==
    IF StartsWith(s, LL) /\ EndsWith(s, RR)
    THEN escapeHtml(SubSeq(s, 3, Len(s) - 2))
    ELSE escapeHtml(s)

RECURSIVE FormatAll(_)
FormatAll(a) ==
    IF Len(a) = 0 THEN <<>> ELSE <<FormatScalar(a[1])>> \o FormatAll(Tail(a))

formatValue(value) ==
    CASE value.t = "undefined" -> <<>>
      [] value.t = "string" -> FormatScalar(value.s)
      [] value.t = "array" -> Join(FormatAll(value.a), <<",", " ">>)
      [] OTHER -> escapeHtml(NumToStr(value.n))

\* the rest of /(.+)\s+as\s+"([^"]+)"/i behind the first group
AsTailRe == <<Ws1, Lit(<<"a", "s">>), Ws1, Lit(Quote), NotCap(Quote), Lit(Quote)>>

\* f.match(/(.+)\s+as\s+"([^"]+)"/i): the first group is greedy, the match
\* ignores case and the groups are taken from f as written
Column(f) ==
    LET low == ToLowerCase(f)
        Ends == {k \in 1..Len(f) : MatchAt(low, k + 1, k + 1, AsTailRe, <<>>).ok}
    IN  IF Ends = {} THEN [field |-> f, label |-> f]
        ELSE LET k == CHOOSE k \in Ends : \A k2 \in Ends : k2 <= k
                 m == MatchAt(low, k + 1, k + 1, AsTailRe, <<>>)
             IN  [field |-> Trim(SubSeq(f, 1, k)),
                  label |-> SubSeq(f, m.to - 1 - Len(m.caps[1]), m.to - 2)]

renderList(res, baseUrl) ==
    [kind |-> "list", type |-> "list", header |-> <<>>,
     rows |-> [i \in 1..Len(res) |->
                  <<LinkCell(baseUrl \o <<"/">> \o res[i].slug, escapeHtml(res[i].title))>>]]

renderTable(q, res, baseUrl) ==
    LET columns == [i \in 1..Len(q.fields) |-> Column(q.fields[i])]
        Cell(file, c) ==
            IF c.field = FileLink
            THEN LinkCell(baseUrl \o <<"/">> \o file.slug, escapeHtml(file.title))
            ELSE TextCell(formatValue(Field(file, c.field)))
    IN  [kind |-> "table", type |-> "table",
         header |-> [i \in 1..Len(columns) |-> escapeHtml(columns[i].label)],
         rows |-> [r \in 1..Len(res) |->
                      [i \in 1..Len(columns) |-> Cell(res[r], columns[i])]]]

\* the renderer without the branch for an empty result
renderDataviewResultNoPlaceholder(q, res, baseUrl) ==
    IF q.type = "LIST" THEN renderList(res, baseUrl)
    ELSE renderTable(q, res, baseUrl)

renderDataviewResult(q, res, baseUrl) ==
    IF Len(res) = 0
    THEN [kind |-> "empty", type |-> IF q.type = "LIST" THEN "list" ELSE "table",
          header |-> <<>>, rows |-> <<>>]
    ELSE IF q.type = "LIST" THEN renderList(res, baseUrl)
    ELSE renderTable(q, res, baseUrl)

\* <div class="dataview-error">Could not parse query</div>
CouldNotParse == [kind |-> "error", type |-> "", header |-> <<>>, rows |-> <<>>]

-----------------------------------------------------------------------------
(* Callout pass, processCallouts and renderCallout of astro.config.mjs.    *)
(* A string with line breaks is the sequence of its lines: the content is  *)
(* scanned as lines (its split at the normalized line ends), a rendered    *)
(* callout is the sequence of the lines of its HTML, and result.join('\n') *)
(* puts the lines of all elements of result one after another.             *)

NoCallout == [ok |-> FALSE, type |-> <<>>, fold |-> <<>>, title |-> <<>>]

\* line.match(/^>\s*\[!([^\]]+)\]([-+])?\s*(.*)?$/)
CalloutMatch(line) ==
    IF ~StartsWith(line, <<">">>) THEN NoCallout
    ELSE LET a == SubstringFrom(line, 1)
             b == SubstringFrom(a, LeadingIn(a, Spaces))
         IN  IF ~StartsWith(b, <<"[", "!">>) THEN NoCallout
             ELSE LET c == SubstringFrom(b, 2)
                      k == LeadingIn(c, Chars \ {"]"})
                  IN  IF k = 0 \/ k = Len(c) THEN NoCallout
                      ELSE LET d == SubstringFrom(c, k + 1)
                               fold == IF Len(d) > 0 /\ d[1] \in {"-", "+"}
                                       THEN <<d[1]>> ELSE <<>>
                               e == SubstringFrom(d, Len(fold))
                           IN  [ok |-> TRUE, type |-> SubSeq(c, 1, k), fold |-> fold,
                                title |-> SubstringFrom(e, LeadingIn(e, Spaces))]

\* line.replace(/^>\s?/, '')
StripQuote(line) ==
    IF ~StartsWith(line, <<">">>) THEN line
    ELSE IF Len(line) > 1 /\ IsSpace(line[2]) THEN SubstringFrom(line, 2)
    ELSE SubstringFrom(line, 1)

\* the drawing of the icon is left out
getCalloutIconSvg(type) == <<"<", "s", "v", "g", " ", "c", "l", "a", "s", "s", "=", "\"", "s", "v", "g", "-", "i", "c", "o", "n", "\"", ">", "<", "/", "s", "v", "g", ">">>

FoldIcon == <<"<", "s", "v", "g", " ", "c", "l", "a", "s", "s", "=", "\"", "s", "v", "g", "-", "i", "c", "o", "n", " ", "l", "u", "c", "i", "d", "e", "-", "c", "h", "e", "v", "r", "o", "n", "-", "d", "o", "w", "n", "\"", ">", "<", "/", "s", "v", "g", ">">>

\* content.join('\n') as lines: the join of no line is one empty line
ContentHtml(content) == IF Len(content) = 0 THEN <<<<>>>> ELSE content

renderCallout(type, title, content, isCollapsible) ==
    LET displayTitle == IF Len(title) > 0 THEN title ELSE ToUpperCase(type)
        icon  == <<"<", "d", "i", "v", " ", "c", "l", "a", "s", "s", "=", "\"", "c", "a", "l", "l", "o", "u", "t", "-", "i", "c", "o", "n", "\"", ">">> \o getCalloutIconSvg(type) \o <<"<", "/", "d", "i", "v", ">">>
        inner == <<"<", "d", "i", "v", " ", "c", "l", "a", "s", "s", "=", "\"", "c", "a", "l", "l", "o", "u", "t", "-", "t", "i", "t", "l", "e", "-", "i", "n", "n", "e", "r", "\"", ">">> \o displayTitle \o <<"<", "/", "d", "i", "v", ">">>
    IN  IF isCollapsible
        THEN << <<"<", "d", "i", "v", " ", "d", "a", "t", "a", "-", "c", "a", "l", "l", "o", "u", "t", "-", "m", "e", "t", "a", "d", "a", "t", "a", "=", "\"", "\"", " ", "d", "a", "t", "a", "-", "c", "a", "l", "l", "o", "u", "t", "-", "f", "o", "l", "d", "=", "\"", "-", "\"", " ", "d", "a", "t", "a", "-", "c", "a", "l", "l", "o", "u", "t", "=", "\"">>
                    \o type \o <<"\"", " ", "c", "l", "a", "s", "s", "=", "\"", "c", "a", "l", "l", "o", "u", "t", " ", "i", "s", "-", "c", "o", "l", "l", "a", "p", "s", "i", "b", "l", "e", " ", "i", "s", "-", "c", "o", "l", "l", "a", "p", "s", "e", "d", "\"", ">">>,
                <<"<", "d", "i", "v", " ", "c", "l", "a", "s", "s", "=", "\"", "c", "a", "l", "l", "o", "u", "t", "-", "t", "i", "t", "l", "e", "\"", " ", "d", "i", "r", "=", "\"", "a", "u", "t", "o", "\"", ">">>,
                icon,
                inner,
                <<"<", "d", "i", "v", " ", "c", "l", "a", "s", "s", "=", "\"", "c", "a", "l", "l", "o", "u", "t", "-", "f", "o", "l", "d", " ", "i", "s", "-", "c", "o", "l", "l", "a", "p", "s", "e", "d", "\"", ">">> \o FoldIcon \o <<"<", "/", "d", "i", "v", ">">>,
                <<"<", "/", "d", "i", "v", ">">>,
                <<"<", "d", "i", "v", " ", "c", "l", "a", "s", "s", "=", "\"", "c", "a", "l", "l", "o", "u", "t", "-", "c", "o", "n", "t", "e", "n", "t", "\"", " ", "s", "t", "y", "l", "e", "=", "\"", "d", "i", "s", "p", "l", "a", "y", ":", " ", "n", "o", "n", "e", ";", "\"", ">">>,
                <<>> >>
             \o ContentHtml(content) \o << <<>>, <<"<", "/", "d", "i", "v", ">">>, <<"<", "/", "d", "i", "v", ">">> >>
        ELSE << <<"<", "d", "i", "v", " ", "d", "a", "t", "a", "-", "c", "a", "l", "l", "o", "u", "t", "-", "m", "e", "t", "a", "d", "a", "t", "a", "=", "\"", "\"", " ", "d", "a", "t", "a", "-", "c", "a", "l", "l", "o", "u", "t", "=", "\"">> \o type
                    \o <<"\"", " ", "c", "l", "a", "s", "s", "=", "\"", "c", "a", "l", "l", "o", "u", "t", "\"", ">">>,
                <<"<", "d", "i", "v", " ", "c", "l", "a", "s", "s", "=", "\"", "c", "a", "l", "l", "o", "u", "t", "-", "t", "i", "t", "l", "e", "\"", " ", "d", "i", "r", "=", "\"", "a", "u", "t", "o", "\"", ">">>,
                icon,
                inner,
                <<"<", "/", "d", "i", "v", ">">>,
                <<"<", "d", "i", "v", " ", "c", "l", "a", "s", "s", "=", "\"", "c", "a", "l", "l", "o", "u", "t", "-", "c", "o", "n", "t", "e", "n", "t", "\"", ">">>,
                <<>> >>
             \o ContentHtml(content) \o << <<>>, <<"<", "/", "d", "i", "v", ">">>, <<"<", "/", "d", "i", "v", ">">> >>

\* the locals of processCallouts before the loop
CalloutStart(lines) ==
    [lines |-> lines, i |-> 0, result |-> <<>>, inCallout |-> FALSE,
     calloutType |-> <<>>, calloutTitle |-> <<>>, calloutContent |-> <<>>,
     isCollapsible |-> FALSE]

\* renderCallout(calloutType, calloutTitle, calloutContent, isCollapsible)
Rendered(st) ==
    renderCallout(st.calloutType, st.calloutTitle, st.calloutContent, st.isCollapsible)

\* the blank line is followed by a quoted line, without the test
NextContinuesNever(st) == FALSE

\* i + 1 < lines.length && lines[i + 1].startsWith('>')
NextContinues(st) ==
    st.i + 1 < Len(st.lines) /\ StartsWith(st.lines[st.i + 2], <<">">>)

\* the push of a line that is a callout's content instead of the line
PushStripped(result, line) == Append(result, <<StripQuote(line)>>)

\* result.push(line)
Push(result, line) == Append(result, <<line>>)

\* one pass of the loop body, on lines[i], and the i++
CalloutStep(st) ==
    LET line == st.lines[st.i + 1]
        calloutMatch == CalloutMatch(line)
        next == [st EXCEPT !.i = st.i + 1]
    IN  IF calloutMatch.ok
        THEN LET closed == IF st.inCallout
                           THEN [next EXCEPT !.result = Append(@, Rendered(st)),
                                             !.calloutContent = <<>>]
                           ELSE next
                 type == ToLowerCase(calloutMatch.type)
             IN  [closed EXCEPT
                     !.inCallout = TRUE,
                     !.calloutType = type,
                     !.isCollapsible = calloutMatch.fold \in {<<"-">>, <<"+">>},
                     !.calloutTitle = IF Len(calloutMatch.title) > 0
                                      THEN calloutMatch.title ELSE ToUpperCase(type)]
        ELSE IF st.inCallout /\ StartsWith(line, <<">">>)
        THEN [next EXCEPT !.calloutContent = Append(@, StripQuote(line))]
        ELSE IF st.inCallout /\ Trim(line) = <<>>
        THEN IF NextContinues(st)
             THEN [next EXCEPT !.calloutContent = Append(@, <<>>)]
             ELSE [next EXCEPT !.result = Push(Append(@, Rendered(st)), line),
                               !.calloutContent = <<>>,
                               !.inCallout = FALSE]
        ELSE IF st.inCallout
        THEN [next EXCEPT !.result = Push(Append(@, Rendered(st)), line),
                          !.calloutContent = <<>>,
                          !.inCallout = FALSE]
        ELSE [next EXCEPT !.result = Push(@, line)]

\* the end of the pass without the flush
CalloutEndOpen(st) == st

\* the flush behind the loop
CalloutEnd(st) ==
    IF st.inCallout THEN [st EXCEPT !.result = Append(@, Rendered(st))] ELSE st

\* result.join('\n'), as lines
RECURSIVE JoinLines(_)
JoinLines(result) ==
    IF Len(result) = 0 THEN <<>> ELSE result[1] \o JoinLines(Tail(result))

RECURSIVE CalloutLoop(_)
CalloutLoop(st) == IF st.i < Len(st.lines) THEN CalloutLoop(CalloutStep(st)) ELSE st

\* processCallouts on a content given as its lines
processCallouts(lines) == JoinLines(CalloutEnd(CalloutLoop(CalloutStart(lines))).result)

-----------------------------------------------------------------------------
(* Mechanics block parser, parseIronVaultBlock of src/src/lib/dataview.ts, *)
(* with the directive parsers behind it.  The line break that joins the    *)
(* lines of an oracle group is written as a space: the patterns of         *)
(* parseOracleGroupBlock (\s+, [^"]+) take the two alike.                  *)

\* text.replace(/\\\//g, '/')
RECURSIVE UnescapeSlashes(_)
UnescapeSlashes(text) ==
    IF Len(text) = 0 THEN <<>>
    ELSE IF StartsWith(text, <<"\\", "/">>) THEN <<"/">> \o UnescapeSlashes(SubstringFrom(text, 2))
    ELSE <<text[1]>> \o UnescapeSlashes(Tail(text))

\* the escapeHtml of the block parsers
escapeHtml_block(text) == escapeHtml(UnescapeSlashes(text))

\* (line.match(/{/g) || []).length - (line.match(/}/g) || []).length
BraceBalance(line) ==
    Cardinality({k \in 1..Len(line) : line[k] = "{"})
        - Cardinality({k \in 1..Len(line) : line[k] = "}"})

\* /name="([^"]+)"/
NameRe == <<Lit(<<"n", "a", "m", "e", "=", "\"">>), NotCap(Quote), Lit(Quote)>>

\* /result="([^"]+)"/
ResultRe == <<Lit(<<"r", "e", "s", "u", "l", "t", "=", "\"">>), NotCap(Quote), Lit(Quote)>>

\* /roll=(\d+)/
RollRe == <<Lit(<<"r", "o", "l", "l", "=">>), DigitsCap>>

parseOracleBlock(line) ==
    LET nameMatch   == Search(line, NameRe)
        resultMatch == Search(line, ResultRe)
        rollMatch   == Search(line, RollRe)
    IN  IF ~nameMatch.ok THEN ParseError(KindOracle, line)
        ELSE Span(<<"oracle">>, escapeHtml_block(LinkLabel(nameMatch.caps[1])), <<>>,
                  << IF rollMatch.ok THEN rollMatch.caps[1] ELSE <<>>,
                     escapeHtml_block(IF resultMatch.ok THEN resultMatch.caps[1] ELSE <<>>) >>,
                  FALSE, <<>>)

\* /oracle-group\s+name="([^"]+)"/
GroupNameRe == <<Lit(<<"o", "r", "a", "c", "l", "e", "-", "g", "r", "o", "u", "p">>), Ws1>> \o NameRe

\* /oracle\s+name="([^"]+)"\s+result="([^"]+)"\s+roll=(\d+)/g
GroupOracleRe == <<Lit(<<"o", "r", "a", "c", "l", "e">>), Ws1>> \o NameRe \o <<Ws1>> \o ResultRe \o <<Ws1>> \o RollRe

\* content.matchAll(pat): the matches from left to right, each begun behind
\* the one before
RECURSIVE MatchAll(_, _)
MatchAll(content, pat) ==
    LET m == Search(content, pat)
    IN  IF ~m.ok THEN <<>>
        ELSE <<m.caps>> \o MatchAll(SubSeq(content, m.to, Len(content)), pat)

parseOracleGroupBlock(content) ==
    LET nameMatch == Search(content, GroupNameRe)
        name      == IF nameMatch.ok THEN nameMatch.caps[1] ELSE <<"O", "r", "a", "c", "l", "e", " ", "G", "r", "o", "u", "p">>
        oracleMatches == MatchAll(content, GroupOracleRe)
        oracles == [k \in 1..Len(oracleMatches) |->
                       << escapeHtml_block(LinkLabel(oracleMatches[k][1])),
                          oracleMatches[k][3],
                          escapeHtml_block(oracleMatches[k][2]) >>]
    IN  Span(<<"oracle-group">>, escapeHtml_block(name), <<>>, oracles, FALSE, <<>>)

\* /name="\[\[([^|]+)\|([^\]]+)\]\]"/
TrackNameRe == <<Lit(<<"n", "a", "m", "e", "=", "\"", "[", "[">>), NotCap(<<"|">>), Lit(<<"|">>), NotCap(<<"]">>), Lit(<<"]", "]", "\"">>)>>

\* /status="([^"]+)"/
StatusRe == <<Lit(<<"s", "t", "a", "t", "u", "s", "=", "\"">>), NotCap(Quote), Lit(Quote)>>

parseTrackBlock(line, baseUrl) ==
    LET nameMatch   == Search(line, TrackNameRe)
        statusMatch == Search(line, StatusRe)
        path        == IF nameMatch.ok THEN nameMatch.caps[1] ELSE <<>>
        displayName == IF nameMatch.ok THEN nameMatch.caps[2] ELSE <<>>
        status      == IF statusMatch.ok THEN statusMatch.caps[1] ELSE <<"a", "d", "d", "e", "d">>
        slug        == pathToSlug(path)
    IN  Span(<<"track-status">>, escapeHtml_block(displayName), <<>>, <<status>>, FALSE,
             baseUrl \o <<"/">> \o slug)

\* the locals of parseIronVaultBlock before the loop; units keeps, for each
\* element of results, the directive and the text it was rendered from
\* nothing returned yet
NoHtml == [classes |-> <<>>, children |-> <<>>]

BlockStart(lines) ==
    [lines |-> lines, results |-> <<>>, i |-> 0, units |-> <<>>, html |-> NoHtml]

\* a variant that takes the next line without stepping to it
CollectOne(lines, i, acc, braceCount) ==
    IF braceCount > 0 /\ i + 1 < Len(lines)
    THEN [i |-> i, acc |-> Append(acc, lines[i + 2])]
    ELSE [i |-> i, acc |-> acc]

\* the inner while loop: lines are taken while braces are open and a line
\* is left
RECURSIVE Collect(_, _, _, _)
Collect(lines, i, acc, braceCount) ==
    IF braceCount > 0 /\ i + 1 < Len(lines)
    THEN Collect(lines, i + 1, Append(acc, lines[i + 2]),
                 braceCount + BraceBalance(lines[i + 2]))
    ELSE [i |-> i, acc |-> acc]

\* a variant that steps over the line behind a directive
AfterSkip(i) == i + 2

\* the i++ that ends a pass of the outer loop
After(i) == i + 1

\* one pass of the outer while loop
BlockStep(st, baseUrl) ==
    LET line == Trim(st.lines[st.i + 1])
        Unit(kind, from, taken, html) ==
            [st EXCEPT !.results = Append(@, html),
                       !.units = Append(@, [kind |-> kind, at |-> st.i, count |-> Len(taken),
                                          text |-> Join(taken, <<" ">>)]),
                       !.i = After(from)]
    IN  IF StartsWith(line, <<"m", "o", "v", "e", " ">>)
        THEN LET c == Collect(st.lines, st.i, <<line>>, BraceBalance(line))
                 text == Join(c.acc, <<" ">>)
             IN  Unit("move", c.i, c.acc, parseMoveBlock(text))
        ELSE IF StartsWith(line, <<"o", "r", "a", "c", "l", "e", "-", "g", "r", "o", "u", "p", " ">>)
        THEN LET c == Collect(st.lines, st.i, <<line>>, BraceBalance(line))
                 text == Join(c.acc, <<" ">>)
             IN  Unit("oracle-group", c.i, c.acc, parseOracleGroupBlock(text))
        ELSE IF StartsWith(line, <<"o", "r", "a", "c", "l", "e", " ">>)
        THEN Unit("oracle", st.i, <<line>>, parseOracleBlock(line))
        ELSE IF StartsWith(line, <<"t", "r", "a", "c", "k", " ">>)
        THEN Unit("track", st.i, <<line>>, parseTrackBlock(line, baseUrl))
        ELSE [st EXCEPT !.i = After(st.i)]

\* `<div class="iron-vault-mechanics">${results.join('')}</div>`
BlockEnd(st) ==
    [st EXCEPT !.html = [classes |-> <<"iron-vault-mechanics">>, children |-> st.results]]

\* the outer while loop
RECURSIVE BlockLoop(_, _)
BlockLoop(st, baseUrl) ==
    IF st.i < Len(st.lines) THEN BlockLoop(BlockStep(st, baseUrl), baseUrl) ELSE st

\* lines stands for content.trim().split('\n')
parseIronVaultBlock(lines, baseUrl) == BlockEnd(BlockLoop(BlockStart(lines), baseUrl)).html

-----------------------------------------------------------------------------
(* Browser link fixer, src/docs/site-lib/scripts/iron-vault-links.js.  The *)
(* document is kept as the elements the script can find: every place of    *)
(* the body holds an outer element and the element inside it, if any.  An  *)
(* element keeps its tag, the data attribute it carries (kind and path),   *)
(* its href, and how often it was replaced by an anchor.                   *)

DotHtml == <<".", "h", "t", "m", "l">>

\* obsidianPath.toLowerCase().replace(/\.md$/, '.html').replace(/ /g, '-')
\*     .replace(/'/g, '')
obsidianToHtmlPath(obsidianPath) ==
    LET lower == ToLowerCase(obsidianPath)
        html  == IF EndsWith(lower, DotMd) THEN SubSeq(lower, 1, Len(lower) - 3) \o DotHtml
                 ELSE lower
    IN  RemoveChars([k \in 1..Len(html) |-> IF html[k] = " " THEN "-" ELSE html[k]], {"'"})

\* s.replace(sub, ''): the first occurrence is taken out
RemoveFirst(s, sub) ==
    LET at == {i \in 1..(Len(s) - Len(sub) + 1) : SubSeq(s, i, i + Len(sub) - 1) = sub}
    IN  IF at = {} THEN s
        ELSE LET i == CHOOSE i \in at : \A j \in at : i <= j
             IN  SubSeq(s, 1, i - 1) \o SubSeq(s, i + Len(sub), Len(s))

\* the index before a fetch has succeeded
NoIndex == [loaded |-> FALSE, documentIds |-> <<>>]

\* the path of the first document of the index with the file name, null as
\* the empty path
findPageByFilename(filename, index) ==
    IF ~index.loaded THEN <<>>
    ELSE LET segs == Split(filename, "/")
             name == StripMd(ToLowerCase(segs[Len(segs)]))
             searchName == [k \in 1..Len(name) |-> IF name[k] = " " THEN "-" ELSE name[k]]
             PathFilename(path) ==
                 LET parts == Split(path, "/")
                 IN  RemoveFirst(parts[Len(parts)], DotHtml)
             hits == {k \in 1..Len(index.documentIds) :
                         PathFilename(index.documentIds[k]) = searchName}
         IN  IF hits = {} THEN <<>>
             ELSE index.documentIds[CHOOSE k \in hits : \A j \in hits : k <= j]

NoElement == [tag |-> "none", kind |-> "none", path |-> <<>>, href |-> <<>>, times |-> 0]

\* the anchor created for el: class, inner HTML and data attributes are
\* those of el, and the anchor takes the place of el
convertToLink(el, href) == [el EXCEPT !.tag = "a", !.href = href, !.times = @ + 1]

\* the element matches span[data-<kind>-path]
IsSpanOf(el, kind) == el.tag = "span" /\ el.kind = kind

\* the first forEach of processLinks at one place.  The anchor of an outer
\* span takes a copy of what is inside it, so that a track span inside it,
\* which the node list still holds, is replaced outside the document only.
ConvertTracks(place) ==
    IF IsSpanOf(place.outer, "track") /\ Len(place.outer.path) > 0
    THEN [place EXCEPT !.outer = convertToLink(@, obsidianToHtmlPath(@.path))]
    ELSE IF IsSpanOf(place.inner, "track") /\ Len(place.inner.path) > 0
    THEN [place EXCEPT !.inner = convertToLink(@, obsidianToHtmlPath(@.path))]
    ELSE place

\* the href the second forEach finds for an entity path, none as the empty
\* path
EntityHref(entityPath, index) ==
    IF Len(entityPath) = 0 THEN <<>>
    ELSE IF "/" \in SeqRange(entityPath) THEN obsidianToHtmlPath(entityPath)
    ELSE findPageByFilename(entityPath, index)

\* the second forEach of processLinks at one place
ConvertEntities(place, index) ==
    IF IsSpanOf(place.outer, "entity") /\ Len(EntityHref(place.outer.path, index)) > 0
    THEN [place EXCEPT !.outer = convertToLink(@, EntityHref(@.path, index))]
    ELSE IF IsSpanOf(place.inner, "entity") /\ Len(EntityHref(place.inner.path, index)) > 0
    THEN [place EXCEPT !.inner = convertToLink(@, EntityHref(@.path, index))]
    ELSE place

\* processLinks behind its await: both loops over the document
processLinks(document, index) ==
    [k \in 1..Len(document) |-> ConvertEntities(ConvertTracks(document[k]), index)]

\* the records of the replaceChild calls of a run: one for every anchor put
\* into the document, with the place and the level of the anchor
RECURSIVE AddedAnchors(_, _, _)
AddedAnchors(before, after, k) ==
    IF k > Len(before) THEN <<>>
    ELSE (IF after[k].outer.times > before[k].outer.times
          THEN <<[at |-> k, level |-> "outer", own |-> TRUE]>> ELSE <<>>)
         \o (IF after[k].inner.times > before[k].inner.times
             THEN <<[at |-> k, level |-> "inner", own |-> TRUE]>> ELSE <<>>)
         \o AddedAnchors(before, after, k + 1)

\* a variant whose selectors name no tag: [data-track-path],
\* [data-entity-path]
HasTargetsOfAnyTag(document, record) ==
    LET place == document[record.at]
        Matches(el) == el.kind \in {"track", "entity"}
    IN  IF record.level = "inner" THEN Matches(place.inner)
        ELSE Matches(place.inner) \/ Matches(place.outer)

\* node.querySelector('span[data-track-path], span[data-entity-path]') ||
\* node.matches(the same) for the node a record added, as the document is
\* when the observer is called
HasTargets(document, record) ==
    LET place == document[record.at]
        Matches(el) == IsSpanOf(el, "track") \/ IsSpanOf(el, "entity")
    IN  IF record.level = "inner" THEN Matches(place.inner)
        ELSE Matches(place.inner) \/ Matches(place.outer)

LinkIdle ==
    /\ dom = <<>>
    /\ searchIndex = NoIndex
    /\ debounceTimer = "none"
    /\ records = <<>>
    /\ lpc = [observing |-> FALSE, titleLinked |-> FALSE, calls |-> 0]
    /\ hist = [added |-> 0, timers |-> 0, runs |-> 0]

-----------------------------------------------------------------------------
(* Markdown pre-processing, processMarkdown of src/astro.config.mjs.  A    *)
(* content is one text with its line breaks.                               *)

LF == <<"\n">>

\* s.replace(/\r\n/g, '\n').replace(/\r/g, '\n')
RECURSIVE NormalizeLineEndings(_)
NormalizeLineEndings(s) ==
    IF Len(s) = 0 THEN <<>>
    ELSE IF StartsWith(s, <<"\r", "\n">>) THEN LF \o NormalizeLineEndings(SubstringFrom(s, 2))
    ELSE IF s[1] = "\r" THEN LF \o NormalizeLineEndings(Tail(s))
    ELSE <<s[1]>> \o NormalizeLineEndings(Tail(s))

Fence == <<"grave", "grave", "grave">>

\* s.replace(/([^\n])\n(```)/g, '$1\n\n$2')
RECURSIVE BlankBeforeFences(_)
BlankBeforeFences(s) ==
    IF Len(s) = 0 THEN <<>>
    ELSE IF s[1] # "\n" /\ StartsWith(Tail(s), LF \o Fence)
    THEN <<s[1]>> \o LF \o LF \o Fence \o BlankBeforeFences(SubstringFrom(s, 5))
    ELSE <<s[1]>> \o BlankBeforeFences(Tail(s))

\* path.split(/[/\\]/).pop()?.replace(/\.md$/, '') || ''
FilenameOf(path) ==
    LET segs == Split(Join(Split(path, "\\"), <<"/">>), "/")
    IN  StripMd(segs[Len(segs)])

\* the Map filesByName as the sequence of its set calls: for each file its
\* title, then its filename, both in lower case
RECURSIVE BuildFilesByName(_)
BuildFilesByName(allFiles) ==
    IF Len(allFiles) = 0 THEN <<>>
    ELSE LET file == allFiles[Len(allFiles)]
         IN  BuildFilesByName(SubSeq(allFiles, 1, Len(allFiles) - 1))
                 \o << [key |-> ToLowerCase(file.title), file |-> file],
                       [key |-> ToLowerCase(FilenameOf(file.path)), file |-> file] >>

NoFile == [found |-> FALSE, file |-> <<>>]

\* filesByName.get(key): the value of the last set call with the key
MapGet(filesByName, key) ==
    LET hits == {k \in 1..Len(filesByName) : filesByName[k].key = key}
    IN  IF hits = {} THEN NoFile
        ELSE [found |-> TRUE,
              file |-> filesByName[CHOOSE k \in hits : \A j \in hits : j <= k].file]

\* the content returned by processCallouts, its lines joined again
CalloutsOf(s) == Join(processCallouts(Split(s, "\n")), LF)

\* ([^\]|]+)(?:\|([^\]]+))?\]\] behind the opening text open: the target
\* and the display, the replacement callback's two groups; an empty
\* display is the undefined group
LinkAt(s, i, open) ==
    LET both == MatchAt(s, i, i, <<Lit(open), NotCapAll(<<"]", "|">>), Lit(<<"|">>),
                                   NotCapAll(<<"]">>), Lit(<<"]", "]">>)>>, <<>>)
        one  == MatchAt(s, i, i, <<Lit(open), NotCapAll(<<"]", "|">>), Lit(<<"]", "]">>)>>, <<>>)
    IN  IF both.ok THEN both
        ELSE IF one.ok THEN [one EXCEPT !.caps = Append(@, <<>>)]
        ELSE NoMatch

ImageExtensions == {<<"p", "n", "g">>, <<"j", "p", "g">>, <<"j", "p", "e", "g">>, <<"g", "i", "f">>, <<"s", "v", "g">>, <<"w", "e", "b", "p">>}

\* the first group ends in \.(?:png|jpg|jpeg|gif|svg|webp), whatever the
\* case of its letters, behind one character at least
HasImageExtension(filename) ==
    \E ext \in ImageExtensions :
        /\ Len(filename) > Len(ext) + 1
        /\ ToLowerCase(SubSeq(filename, Len(filename) - Len(ext), Len(filename)))
               = <<".">> \o ext

\* the match of the pattern of a pass at position i of s
PassMatchAt(pass, s, i) ==
    LET m == LinkAt(s, i, IF pass = "links" THEN <<"[", "[">> ELSE <<"!", "[", "[">>)
    IN  IF pass = "images" /\ m.ok /\ ~HasImageExtension(m.caps[1]) THEN NoMatch ELSE m

\* the text before the leftmost match of a pass, the match, and the same
\* for the text behind it: the matches String.replace visits with a global
\* pattern
RECURSIVE Segments(_, _)
Segments(pass, s) ==
    LET at == [i \in 1..Len(s) |-> PassMatchAt(pass, s, i)]
        hits == {i \in 1..Len(s) : at[i].ok}
    IN  IF hits # {}
        THEN LET i == CHOOSE i \in hits : \A j \in hits : i <= j
                 m == at[i]
             IN  << [isMatch |-> FALSE, text |-> SubSeq(s, 1, i - 1), caps |-> <<>>],
                    [isMatch |-> TRUE, text |-> SubSeq(s, i, m.to - 1), caps |-> m.caps] >>
                     \o Segments(pass, SubSeq(s, m.to, Len(s)))
        ELSE << [isMatch |-> FALSE, text |-> s, caps |-> <<>>] >>

findImagePath(filename, baseUrl) == baseUrl \o <<"/", "a", "t", "t", "a", "c", "h", "m", "e", "n", "t", "s", "/">> \o filename

\* filename.replace(/\.[^.]+$/, '')
WithoutExtension(filename) ==
    LET dots == {k \in 1..Len(filename) : filename[k] = "."}
        last == CHOOSE k \in dots : \A j \in dots : j <= k
    IN  IF dots = {} \/ last = Len(filename) THEN filename
        ELSE SubSeq(filename, 1, last - 1)

\* parts.find(test): the first part among those that pass the test,
\* undefined as <<>>
FindPart(parts, passing) ==
    LET hits == {k \in 1..Len(parts) : parts[k] \in passing}
    IN  IF hits = {} THEN <<>> ELSE parts[CHOOSE k \in hits : \A j \in hits : k <= j]

\* the callback of the image pass
ImageReplacement(filename, options, baseUrl) ==
    LET src == findImagePath(filename, baseUrl)
        alt == WithoutExtension(filename)
        IsSize(p) == Len(p) > 0 /\ \A k \in 1..Len(p) : p[k] \in Chars /\ IsDigit(p[k])
        IsAlign(p) == p \in {<<"c", "e", "n", "t", "e", "r">>, <<"l", "e", "f", "t">>, <<"r", "i", "g", "h", "t">>}
        parts == Split(options, "|")
        size  == FindPart(parts, {p \in SeqRange(parts) : IsSize(p)})
        align == FindPart(parts, {p \in SeqRange(parts) : IsAlign(p)})
        style == (IF Len(size) > 0 THEN <<"w", "i", "d", "t", "h", ":", " ">> \o size \o <<"p", "x", ";">> ELSE <<>>)
                     \o (IF align = <<"c", "e", "n", "t", "e", "r">> THEN <<"d", "i", "s", "p", "l", "a", "y", ":", " ", "b", "l", "o", "c", "k", ";", " ", "m", "a", "r", "g", "i", "n", ":", " ", "0", " ", "a", "u", "t", "o", ";">>
                         ELSE <<>>)
    IN  IF Len(options) > 0
        THEN <<"<", "i", "m", "g", " ", "s", "r", "c", "=", "\"">> \o src \o <<"\"", " ", "a", "l", "t", "=", "\"">> \o alt \o <<"\"", " ", "s", "t", "y", "l", "e", "=", "\"">> \o style \o <<"\"", " ", "/", ">">>
        ELSE <<"!", "[">> \o alt \o <<"]", "(">> \o src \o <<")">>

\* a variant that never consults the lookup table
SlugOfTargetUnresolved(target, filesByName) == pathToSlug(target \o DotMd)

\* file ? file.slug : pathToSlug(target + '.md'), file being
\* filesByName.get(target.toLowerCase().trim())
SlugOfTarget(target, filesByName) ==
    LET file == MapGet(filesByName, Trim(ToLowerCase(target)))
    IN  IF file.found THEN file.file.slug ELSE pathToSlug(target \o DotMd)

\* the callback of the content embed pass
EmbedReplacement(target, display, filesByName, baseUrl) ==
    <<"<", "d", "i", "v", " ", "c", "l", "a", "s", "s", "=", "\"", "e", "m", "b", "e", "d", "-", "l", "i", "n", "k", "\"", ">", "<", "a", " ", "h", "r", "e", "f", "=", "\"">> \o baseUrl \o <<"/">>
        \o SlugOfTarget(target, filesByName) \o <<"\"", ">">>
        \o (IF Len(display) > 0 THEN display ELSE target) \o <<"<", "/", "a", ">", "<", "/", "d", "i", "v", ">">>

\* the callback of the wikilink pass
WikilinkReplacement(target, display, filesByName, baseUrl) ==
    <<"[">> \o (IF Len(display) > 0 THEN display ELSE target) \o <<"]", "(">>
        \o baseUrl \o <<"/">> \o SlugOfTarget(target, filesByName) \o <<")">>

\* the callback of a pass on the groups of a match
Replacement(pass, caps, filesByName, baseUrl) ==
    IF pass = "images" THEN ImageReplacement(caps[1], caps[2], baseUrl)
    ELSE IF pass = "embeds" THEN EmbedReplacement(caps[1], caps[2], filesByName, baseUrl)
    ELSE WikilinkReplacement(caps[1], caps[2], filesByName, baseUrl)

\* the text from position i on with every match of the pattern of a pass
\* replaced: the leftmost match is replaced, and the search goes on behind
\* it
RECURSIVE ReplaceFrom(_, _, _, _, _)
ReplaceFrom(pass, s, i, filesByName, baseUrl) ==
    LET hits == {k \in i..Len(s) : PassMatchAt(pass, s, k).ok}
    IN  IF hits = {} THEN SubSeq(s, i, Len(s))
        ELSE LET k == CHOOSE k \in hits : \A j \in hits : k <= j
                 m == PassMatchAt(pass, s, k)
             IN  SubSeq(s, i, k - 1) \o Replacement(pass, m.caps, filesByName, baseUrl)
                     \o ReplaceFrom(pass, s, m.to, filesByName, baseUrl)

\* processed.replace(pattern, callback) for the pattern and the callback of
\* a pass
ReplacePass(pass, s, filesByName, baseUrl) == ReplaceFrom(pass, s, 1, filesByName, baseUrl)

MarkdownIdle ==
    /\ ppc = "idle"
    /\ md = "none"

CalloutIdle ==
    /\ cpc = "idle"
    /\ co = "none"

BlockIdle ==
    /\ bpc = "idle"
    /\ blk = "none"

-----------------------------------------------------------------------------
(* The query run: the dataview branch of remarkIronVault parses the text   *)
(* of a query block, executes the query on the document set and renders    *)
(* the result.  A line of the text is kept with the parts it was written   *)
(* from (kind, a, op, b); the parser reads its text alone.                 *)

BaseUrl == <<>>

MaxLines == 3

MaxDocs == 3

Sp == <<" ">>

Line(kind, text, a, op, b) == [kind |-> kind, text |-> text, a |-> a, op |-> op, b |-> b]

\* `<kw> <fields>` for kw TABLE or TABLE WITHOUT ID in any letter case
TableLine(kw, fields) == Line("TABLE", kw \o Sp \o fields, fields, "", <<>>)

ListLine(kw) == Line("LIST", kw, <<>>, "", <<>>)

\* `<kw> <selector>` for kw FROM
FromLine(kw, selector) == Line("FROM", kw \o Sp \o selector, selector, "", <<>>)

\* `<kw> <field> = <literal>` and `<kw> <field> != <literal>` for kw WHERE
WhereLine(kw, field, op, literal) ==
    Line("WHERE", kw \o Sp \o field \o Sp \o (IF op = "=" THEN <<"=">> ELSE <<"!", "=">>)
                     \o Sp \o literal,
         field, op, literal)

\* `<kw> <field> <token>` for kw SORT, `<kw> <field>` without a direction token
SortLine(kw, field, token) ==
    Line("SORT", kw \o Sp \o field \o (IF Len(token) = 0 THEN <<>> ELSE Sp \o token),
         field, "", token)

\* `<kw> "<folder>"` for kw FROM
FolderLine(kw, folder) ==
    Line("FROM", kw \o Sp \o Quote \o folder \o Quote, Quote \o folder \o Quote, "", folder)

\* `TABLE <fields> FROM "<folder>"`, the whole query on one line
OneLineQuery(fields, folder) ==
    Line("TABLE FROM", KwTable \o Sp \o fields \o Sp \o KwFrom \o Sp \o Quote \o folder \o Quote,
         fields, "", folder)

\* a line that is no clause
OtherLine(text) == Line("OTHER", text, <<>>, "", <<>>)

TextOf(lines) == [i \in 1..Len(lines) |-> lines[i].text]

NameFields == <<"f", "i", "l", "e", ".", "l", "i", "n", "k", " ", "a", "s", " ", "\"", "N", "a", "m", "e", "\"">>

Status == <<"s", "t", "a", "t", "u", "s">>

Rank == <<"r", "a", "n", "k">>

Done == <<"d", "o", "n", "e">>

DoneLink == <<"[", "[", "D", "o", "n", "e", "]", "]">>

Open == <<"o", "p", "e", "n">>

Npc == <<"n", "p", "c">>

Pc == <<"p", "c">>

LowKwTable == <<"t", "a", "b", "l", "e">>

LowKwList == <<"l", "i", "s", "t">>

LowKwFrom == <<"f", "r", "o", "m">>

LowKwWhere == <<"w", "h", "e", "r", "e">>

LowKwSort == <<"s", "o", "r", "t">>

LowKwAsc == <<"a", "s", "c">>

TokenUp == <<"u", "p">>

GroupBy == <<"G", "R", "O", "U", "P", " ", "B", "Y", " ", "s", "t", "a", "t", "u", "s">>

\* the lines the clause texts are written from
ClauseLines ==
    { TableLine(KwTable, NameFields),
      ListLine(LowKwList),
      FolderLine(KwFrom, Pc),
      FromLine(LowKwFrom, <<"#">> \o Npc),
      WhereLine(KwWhere, Status, "=", Done),
      WhereLine(LowKwWhere, Status, "!=", DoneLink),
      SortLine(KwSort, Rank, KwAsc),
      SortLine(LowKwSort, Rank, <<>>),
      SortLine(KwSort, FileName, LowKwAsc),
      SortLine(KwSort, Rank, TokenUp),
      OtherLine(GroupBy),
      OtherLine(<<" ">>) }

\* the sequences of 1 to n distinct elements of a set
RECURSIVE SeqsOf(_, _)
SeqsOf(set, n) ==
    IF n = 0 THEN {<<>>}
    ELSE LET shorter == SeqsOf(set, n - 1)
         IN  shorter \cup {Append(q, x) : q \in {r \in shorter : Len(r) = n - 1},
                                          x \in set}

DistinctSeqs(set, n) ==
    {q \in SeqsOf(set, n) : Len(q) >= 1 /\ \A i, j \in 1..Len(q) : q[i] = q[j] => i = j}

ClauseTexts == DistinctSeqs(ClauseLines, MaxLines)

Doc(path, slug, title, frontmatter) ==
    [path |-> path, slug |-> slug, title |-> title, frontmatter |-> frontmatter]

\* pc/a.md: tags [npc], status "[[Done]]", rank 2
DocA ==
    Doc(<<"p", "c", "/", "a", ".", "m", "d">>, <<"p", "c", "/", "a">>, <<"A">>,
        (TagsKey :> ArrV(<<Npc>>)) @@ (Status :> StrV(DoneLink)) @@ (Rank :> NumV(2)))

\* PC\b.md: tags "npc" (a scalar), status "open", rank 1
DocB ==
    Doc(<<"P", "C", "\\", "b", ".", "m", "d">>, <<"p", "c", "/", "b">>, <<"B">>,
        (TagsKey :> StrV(Npc)) @@ (Status :> StrV(Open)) @@ (Rank :> NumV(1)))

\* pcx/c.md: no tags, status [done, open], no rank
DocC ==
    Doc(<<"p", "c", "x", "/", "c", ".", "m", "d">>, <<"p", "c", "x", "/", "c">>, <<"C">>,
        (Status :> ArrV(<<Done, Open>>)))

\* npc/d.md: tags [pc, npc], no status, rank 2
DocD ==
    Doc(<<"n", "p", "c", "/", "d", ".", "m", "d">>, <<"n", "p", "c", "/", "d">>, <<"D">>,
        (TagsKey :> ArrV(<<Pc, Npc>>)) @@ (Rank :> NumV(2)))

\* pc: the path that is the folder itself; status "DONE", rank 3
DocE ==
    Doc(Pc, Pc, <<"E">>, (Status :> StrV(ToUpperCase(Done))) @@ (Rank :> NumV(3)))

DocPool == {DocA, DocB, DocC, DocD, DocE}

DocSets == DistinctSeqs(DocPool, MaxDocs)

\* the document set the clause texts run on: ranks 3, 2, none, 1
ClauseDocs == <<DocE, DocA, DocC, DocB>>

\* a document set that holds one document twice
RepeatedDocs == <<DocA, DocB, DocA>>

Folders == {Pc, ToUpperCase(Pc), Npc, <<"p">>}

\* the texts run on every document set
DocTexts ==
    {<<TableLine(KwTable, NameFields), FolderLine(KwFrom, f)>> : f \in Folders}
    \cup {<<OneLineQuery(NameFields, f)>> : f \in Folders}
    \cup {<<ListLine(KwList), WhereLine(KwWhere, Status, op, Done)>> : op \in {"=", "!="}}
    \cup {<<ListLine(KwList), SortLine(KwSort, Rank, t)>> : t \in {KwAsc, <<>>}}
    \cup {<<ListLine(KwList), FromLine(KwFrom, <<"#">> \o Npc)>>}

\* the literals of the WHERE lines compared with the status values below
Literals ==
    { Done, <<"D", "o", "n", "e">>, DoneLink, <<"\"", "d", "o", "n", "e", "\"">>, <<"'", "d", "o", "n", "e", "'">>,
      <<"\"", "[", "[", "d", "o", "n", "e", "]", "]", "\"">>, <<"[", "[", "[", "[", "d", "o", "n", "e", "]", "]", "]", "]">>, Open,
      <<"[", "[", "d", "o", "n", "e">>, <<"d", "o", "n", "e", "]">> }

StatusValues ==
    { Done, DoneLink, ToUpperCase(Done), Open, <<"[", "[", "[", "[", "d", "o", "n", "e", "]", "]", "]", "]">>,
      <<"[", "[", "d", "o", "n", "e">>, <<"d", "o", "n", "e", "]", "]">>, <<"\"", "d", "o", "n", "e", "\"">>,
      <<"[", "[", "o", "p", "e", "n", "]", "]">>, <<"d", "o", "n", "e", "]">> }

\* n/s.md with the given status
StatusDoc(v) == Doc(<<"n", "/", "s", ".", "m", "d">>, <<"n", "/", "s">>, <<"S">>, (Status :> StrV(v)))

LiteralQuery(literal) == <<ListLine(KwList), WhereLine(KwWhere, Status, "=", literal)>>

\* a declared field: a name with or without an alias (an empty label)
Decl(name, label) == [name |-> name, label |-> label]

DeclText(d) ==
    IF Len(d.label) = 0 THEN d.name
    ELSE d.name \o <<" ", "a", "s", " ">> \o Quote \o d.label \o Quote

\* the longest field list of a TABLE line
MaxFields == 2

DeclNames == {FileLink, Status, Rank}

DeclLabels == {<<>>, <<"N", "a", "m", "e">>, <<"L", "a", "s", "t", ",", " ", "F", "i", "r", "s", "t">>}

Decls == {Decl(n, l) : n \in DeclNames, l \in DeclLabels}

\* the field lists of length 0 to MaxFields
DeclSeqs == SeqsOf(Decls, MaxFields)

\* `TABLE <field>, <field>, ...`
TableQuery(decls) ==
    <<TableLine(KwTable, Join([i \in 1..Len(decls) |-> DeclText(decls[i])], <<",", " ">>))>>

TableDocs == {<<DocA, DocC>>, <<DocB>>}

\* lines that are no clause: other Dataview clauses, and WHERE lines that
\* are no comparison with = or !=
IgnoredLines ==
    { <<"G", "R", "O", "U", "P", " ", "B", "Y", " ", "s", "t", "a", "t", "u", "s">>, <<"L", "I", "M", "I", "T", " ", "5">>, <<"f", "l", "a", "t", "t", "e", "n", " ", "t", "a", "g", "s">>, <<"W", "H", "E", "R", "E", " ", "c", "o", "n", "t", "a", "i", "n", "s", "(", "t", "a", "g", "s", ",", " ", "\"", "n", "p", "c", "\"", ")">>,
      <<"w", "h", "e", "r", "e", " ", "s", "t", "a", "t", "u", "s", " ", "=">>, <<"W", "H", "E", "R", "E", " ", "r", "a", "n", "k", " ", ">", "=", " ", "2">>, <<"W", "H", "E", "R", "E", " ", "s", "t", "a", "t", "u", "s">> }

\* a two-clause query with a line put in at place i
WithLineAt(text, i) ==
    LET base == <<TableLine(KwTable, NameFields), WhereLine(KwWhere, Status, "=", Done)>>
    IN  SubSeq(base, 1, i - 1) \o <<OtherLine(text)>> \o SubSeq(base, i, 2)

IgnoredTexts == {WithLineAt(t, i) : t \in IgnoredLines, i \in 1..3}

\* the white space written before and after a comparison operator
Gaps == {<<>>, <<" ">>, <<" ", " ">>}

\* `<kw> <field><before>!=<after><literal>` for kw WHERE
NotEqualsText(kw, field, before, after, literal) ==
    kw \o Sp \o field \o before \o <<"!", "=">> \o after \o literal

\* a LIST query whose one clause is written with the given white space
SpacedTexts ==
    {<<ListLine(KwList), OtherLine(NotEqualsText(kw, Status, b, a, Done))>> :
         kw \in {KwWhere, LowKwWhere}, b \in Gaps, a \in Gaps}

MechIdle ==
    /\ mpc = "idle"
    /\ directive = "none"
    /\ fragment = "none"
    /\ node = "none"

Init ==
    /\ pc = "start"
    /\ \/ query \in ClauseTexts /\ heap = [in |-> ClauseDocs, out |-> <<>>]
       \/ query \in DocTexts
          /\ \E docs \in DocSets \cup {RepeatedDocs} : heap = [in |-> docs, out |-> <<>>]
       \/ \E l \in Literals, v \in StatusValues :
              /\ query = LiteralQuery(l)
              /\ heap = [in |-> <<StatusDoc(v)>>, out |-> <<>>]
       \/ query \in {TableQuery(d) : d \in DeclSeqs}
          /\ \E docs \in TableDocs : heap = [in |-> docs, out |-> <<>>]
       \/ query \in IgnoredTexts /\ heap = [in |-> <<DocA, DocC>>, out |-> <<>>]
       \/ query \in SpacedTexts /\ heap = [in |-> ClauseDocs, out |-> <<>>]
    /\ files = "in"
    /\ parsed = NullQuery
    /\ results = "none"
    /\ output = "none"
    /\ MechIdle
    /\ CalloutIdle
    /\ BlockIdle
    /\ MarkdownIdle
    /\ LinkIdle

\* const query = parseDataviewQuery(node.value); a null query is rendered
\* as the parse error
ParseQuery ==
    /\ pc = "start"
    /\ parsed' = parseDataviewQuery(TextOf(query))
    /\ IF parsed'.isNull
       THEN pc' = "rendered" /\ output' = CouldNotParse
       ELSE pc' = "parsed" /\ output' = output
    /\ UNCHANGED <<query, files, results, heap, mechVars, calloutVars, blockVars, markdownVars, linkVars>>

\* const results = executeDataviewQuery(query, options.allFiles)
ExecuteQuery ==
    /\ pc = "parsed"
    /\ \E m \in executeDataviewQuery(parsed, heap, files) :
           /\ heap' = m.heap
           /\ results' = m.ref
    /\ pc' = "executed"
    /\ UNCHANGED <<query, files, parsed, output, mechVars, calloutVars, blockVars, markdownVars, linkVars>>

\* node.value = renderDataviewResult(query, results, options.baseUrl)
RenderResult ==
    /\ pc = "executed"
    /\ output' = renderDataviewResult(parsed, heap[results], BaseUrl)
    /\ pc' = "rendered"
    /\ UNCHANGED <<query, files, parsed, results, heap, mechVars, calloutVars, blockVars, markdownVars, linkVars>>

Next == ParseQuery \/ ExecuteQuery \/ RenderResult

Spec == Init /\ [][Next]_vars

-----------------------------------------------------------------------------
(* Claims about the query engine.                                          *)

\* the results executeDataviewQuery can return for a text on a document set
Outcomes(text, docs) ==
    {m.heap[m.ref] :
        m \in executeDataviewQuery(parseDataviewQuery(text), [in |-> docs, out |-> <<>>], "in")}

\* the documents a text returns (the same in every outcome)
Returned(text, docs) == SeqRange(CHOOSE o \in Outcomes(text, docs) : TRUE)

\* the place of a document in a sequence of distinct documents
IndexIn(seq, d) == CHOOSE i \in 1..Len(seq) : seq[i] = d

\* res holds documents of seq in the order they have in seq
InOrderOf(res, seq) ==
    \A i, j \in 1..Len(res) : i < j => IndexIn(seq, res[i]) < IndexIn(seq, res[j])

LinesOfKind(lines, kind) ==
    LET Is(l) == l.kind = kind
    IN  SelectSeq(lines, Is)

\* a line begins with TABLE, TABLE WITHOUT ID or LIST in any letter case
BeginsResultForm(text) ==
    LET u == ToUpperCase(Trim(text))
    IN  StartsWith(u, KwTable) \/ StartsWith(u, KwList)

\* C2: parseDataviewQuery returns null for every text in which no line
\* begins with TABLE, TABLE WITHOUT ID or LIST, and a query only when such
\* a line is present.
C2_NullWithoutResultForm ==
    pc # "start" =>
        (parsed.isNull <=> ~\E i \in 1..Len(query) : BeginsResultForm(query[i].text))

\* C3: every FROM line of the text is kept in the parsed query, in order,
\* and the executor returns only documents that satisfy all of the FROM
\* selectors.
C3_EveryFromKept ==
    LET froms == LinesOfKind(query, "FROM")
    IN  /\ pc # "start" => parsed.from = [i \in 1..Len(froms) |-> froms[i].a]
        /\ pc \in {"executed", "rendered"} =>
               \A d \in SeqRange(heap[results]) :
                   \A i \in 1..Len(froms) : FromPasses(d, froms[i].a)

\* C4: the sequence returned by parse-then-execute is the same for every
\* permutation of the lines of the query text.
C4_LineOrderIrrelevant ==
    pc = "executed" =>
        \A p \in Orderings(query) :
            Outcomes(TextOf(p), heap["in"]) = Outcomes(TextOf(query), heap["in"])

\* the path lies in the folder: lower-cased and with / for \, it is the
\* lower-cased folder or starts with the folder and a /
InFolder(path, folder) ==
    LET norm == [i \in 1..Len(path) |->
                     LowerOf[IF path[i] = "\\" THEN "/" ELSE path[i]]]
        low  == [i \in 1..Len(folder) |-> LowerOf[folder[i]]]
    IN  \/ norm = low
        \/ /\ Len(norm) > Len(low)
           /\ \A i \in 1..Len(low) : norm[i] = low[i]
           /\ norm[Len(low) + 1] = "/"

\* the rows of the output are the link rows of exactly the documents of
\* the input that lie in the folder, in input order
RowsAreFolderDocs(folder) ==
    LET In(d) == InFolder(d.path, folder)
        want  == SelectSeq(heap["in"], In)
    IN  /\ Len(output.rows) = Len(want)
        /\ \A i \in 1..Len(want) :
               /\ Len(output.rows[i]) = 1
               /\ output.rows[i][1].link
               /\ output.rows[i][1].href = BaseUrl \o <<"/">> \o want[i].slug
        /\ Len(want) > 0 => output.kind = "table" /\ output.header = <<<<"N", "a", "m", "e">>>>

\* C5, as claimed: the one-line text `TABLE file.link as "Name" FROM
\* "<folder>"` yields one row for each document in the folder and no other
\* row.
C5_OneLineScenario ==
    (pc = "rendered" /\ Len(query) = 1 /\ query[1].kind = "TABLE FROM") =>
        RowsAreFolderDocs(query[1].b)

\* C5, amended: with the FROM clause on a line of its own, the text
\* `TABLE file.link as "Name"` / `FROM "<folder>"` yields one row for each
\* document whose normalized, lower-cased path is the lower-cased folder or
\* starts with folder + "/", and no other row.
C5_TwoLineScenario ==
    (/\ pc = "rendered"
     /\ Len(query) = 2
     /\ query[1] = TableLine(KwTable, NameFields)
     /\ query[2].kind = "FROM"
     /\ Len(query[2].b) > 0) =>
        RowsAreFolderDocs(query[2].b)

\* Scenario 1 with a path written with \ and a folder that is a prefix of
\* another: pc/a.md and PC\b.md get a row, pcx/c.md gets none
C5_Witness ==
    /\ pc = "rendered"
    /\ query = <<TableLine(KwTable, NameFields), FolderLine(KwFrom, Pc)>>
    /\ heap["in"] = <<DocC, DocB, DocA>>
    /\ Len(output.rows) = 2

\* C6: executeDataviewQuery does not mutate its input: the input array
\* holds the same documents in the same order after every step.
C6_InputNotMutated == [][heap'["in"] = heap["in"]]_vars

\* a query with SORT and without FROM and WHERE has returned all documents
\* in another order than the input has
C6_Witness ==
    /\ pc = "executed"
    /\ parsed.sort.present
    /\ Len(parsed.from) + Len(parsed.where) = 0
    /\ heap[results] # heap["in"]
    /\ Len(heap["in"]) > 1

\* C7: with a SORT clause, returned documents whose sort values compare
\* equal keep the relative order of the input; without one, the result
\* keeps the input order.
C7_TiesKeepInputOrder ==
    pc = "executed" =>
        LET res == heap[results]
        IN  IF parsed.sort.present
            THEN \A i, j \in 1..Len(res) :
                     (i < j /\ Compare(res[i], res[j], parsed.sort) = 0) =>
                         IndexIn(heap["in"], res[i]) < IndexIn(heap["in"], res[j])
            ELSE InOrderOf(res, heap["in"])

\* the direction token of the SORT line that the parsed query takes its
\* sort from (the last one)
LastSortToken ==
    LET sorts == LinesOfKind(query, "SORT")
    IN  sorts[Len(sorts)].b

HasSortLine == Len(LinesOfKind(query, "SORT")) > 0

\* C8, as claimed: the direction is ASC only when the direction token is
\* the literal ASC, and DESC for every other token and without a token.
C8_AscOnlyForLiteralAsc ==
    (pc # "start" /\ HasSortLine) =>
        parsed.sort.direction = IF LastSortToken = KwAsc THEN "ASC" ELSE "DESC"

\* the token is ASC written in any letter case
IsAscToken(token) ==
    /\ Len(token) = 3
    /\ token[1] \in {"A", "a"}
    /\ token[2] \in {"S", "s"}
    /\ token[3] \in {"C", "c"}

\* C8, amended: the direction is ASC exactly when the direction token is
\* ASC in any letter case (asc, Asc, ...), and DESC for every other token
\* and without a token.
C8_AscIgnoringCase ==
    (pc # "start" /\ HasSortLine) =>
        /\ parsed.sort.present
        /\ parsed.sort.direction = IF IsAscToken(LastSortToken) THEN "ASC" ELSE "DESC"

\* a SORT line with the token `asc` is parsed as ascending
C8_Witness ==
    /\ pc = "parsed"
    /\ HasSortLine
    /\ LastSortToken = LowKwAsc
    /\ parsed.sort.direction = "ASC"

\* the text with its line i, a WHERE line, rewritten with the operator =
WithEquals(lines, i) ==
    [lines EXCEPT ![i] = WhereLine(SubSeq(lines[i].text, 1, Len(KwWhere)),
                                   lines[i].a, "=", lines[i].b)]

Without(lines, i) == SubSeq(lines, 1, i - 1) \o SubSeq(lines, i + 1, Len(lines))

\* C9: a document passes `WHERE field != v` iff it does not pass `WHERE
\* field = v`: of the documents the rest of the query lets through, the
\* text with != returns exactly those the text with = does not return.
C9_NotEqualsIsNegation ==
    pc = "executed" =>
        \A i \in 1..Len(query) :
            (query[i].kind = "WHERE" /\ query[i].op = "!=") =>
                \A d \in SeqRange(heap["in"]) :
                    d \in SeqRange(heap[results]) <=>
                        /\ d \in Returned(TextOf(Without(query, i)), heap["in"])
                        /\ d \notin Returned(TextOf(WithEquals(query, i)), heap["in"])

\* `WHERE status != done` has returned a document without status and has
\* dropped one whose status array holds done
C9_Witness ==
    /\ pc = "executed"
    /\ query = <<ListLine(KwList), WhereLine(KwWhere, Status, "!=", Done)>>
    /\ DocD \in SeqRange(heap[results])
    /\ DocC \in SeqRange(heap["in"])
    /\ DocC \notin SeqRange(heap[results])
    /\ DocB \in SeqRange(heap[results])

\* s without one enclosing pair of wikilink brackets
StripOneLevel(s) ==
    IF Len(s) >= 4 /\ s[1] = "[" /\ s[2] = "[" /\ s[Len(s) - 1] = "]" /\ s[Len(s)] = "]"
    THEN [i \in 1..(Len(s) - 4) |-> s[i + 2]]
    ELSE s

SameIgnoringCase(a, b) ==
    Len(a) = Len(b) /\ \A i \in 1..Len(a) : LowerOf[a[i]] = LowerOf[b[i]]

IsLiteralQuery ==
    /\ Len(query) = 2
    /\ query[2].kind = "WHERE"
    /\ query[2].op = "="
    /\ Len(heap["in"]) = 1
    /\ heap["in"][1].path = StatusDoc(<<>>).path

\* C10, as claimed: the comparison succeeds iff field value and literal
\* are equal after one level of wikilink brackets is removed from each and
\* letter case is ignored.
C10_OneLevelOfBrackets ==
    (pc = "executed" /\ IsLiteralQuery) =>
        (Len(heap[results]) = 1 <=>
            SameIgnoringCase(StripOneLevel(heap["in"][1].frontmatter[Status].s),
                             StripOneLevel(query[2].b)))

RECURSIVE DropLeading(_, _)
DropLeading(s, set) ==
    IF Len(s) > 0 /\ s[1] \in set THEN DropLeading(Tail(s), set) ELSE s

RECURSIVE DropTrailing(_, _)
DropTrailing(s, set) ==
    IF Len(s) > 0 /\ s[Len(s)] \in set
    THEN DropTrailing([i \in 1..(Len(s) - 1) |-> s[i]], set) ELSE s

\* s without a leading [[ and without a trailing ]], each if it is there
StripLoose(s) ==
    LET a == IF Len(s) >= 2 /\ s[1] = "[" /\ s[2] = "["
             THEN [i \in 1..(Len(s) - 2) |-> s[i + 2]] ELSE s
    IN  IF Len(a) >= 2 /\ a[Len(a) - 1] = "]" /\ a[Len(a)] = "]"
        THEN [i \in 1..(Len(a) - 2) |-> a[i]] ELSE a

\* the literal as the comparison takes it: without its leading quotes and
\* opening brackets and its trailing quotes and closing brackets, without
\* the spaces then around it, and without a leading [[ or trailing ]] left
LiteralCore(l) ==
    StripLoose(DropTrailing(DropLeading(
        DropTrailing(DropLeading(l, {"\"", "'", "["}), {"\"", "'", "]"}), {" "}), {" "}))

\* the field value as the comparison takes it: without an enclosing pair
\* of wikilink brackets, then without a leading [[ or trailing ]] left
ValueCore(v) == StripLoose(StripOneLevel(v))

\* C10, amended: the comparison of a string frontmatter value with the
\* literal succeeds iff, ignoring letter case, the value without an
\* enclosing [[..]] pair and without one more leading [[ and trailing ]]
\* equals the literal without its leading quote and [ characters, its
\* trailing quote and ] characters and one more leading [[ and trailing ]].
C10_BracketsAndQuotesStripped ==
    (pc = "executed" /\ IsLiteralQuery) =>
        (Len(heap[results]) = 1 <=>
            SameIgnoringCase(ValueCore(heap["in"][1].frontmatter[Status].s),
                             LiteralCore(query[2].b)))

\* Scenario 3: `WHERE status = done` has returned the document whose
\* status is "[[Done]]"
C10_Witness ==
    /\ pc = "executed"
    /\ query = LiteralQuery(Done)
    /\ heap["in"] = <<StatusDoc(DoneLink)>>
    /\ heap[results] = <<StatusDoc(DoneLink)>>

\* the cell a row shows for a declared field
DeclaredCell(file, name) ==
    IF name = FileLink
    THEN LinkCell(BaseUrl \o <<"/">> \o file.slug, escapeHtml(file.title))
    ELSE TextCell(formatValue(Field(file, name)))

\* the header a declared field shows: its label, or its name without one
DeclaredHeader(d) == escapeHtml(IF Len(d.label) = 0 THEN d.name ELSE d.label)

\* C11: a TABLE query with n declared fields and a result of m > 0
\* documents renders n header cells and m rows of n cells; the k-th header
\* and the k-th cell of every row are those of the k-th declared field, and
\* the rows follow the order of the result.
C11_TableShape ==
    pc = "rendered" =>
        \A decls \in DeclSeqs :
            (query = TableQuery(decls) /\ Len(heap[results]) > 0) =>
                LET res == heap[results]
                    n   == Len(decls)
                IN  /\ output.kind = "table"
                    /\ Len(output.header) = n
                    /\ \A k \in 1..n : output.header[k] = DeclaredHeader(decls[k])
                    /\ Len(output.rows) = Len(res)
                    /\ \A r \in 1..Len(res) :
                           /\ Len(output.rows[r]) = n
                           /\ \A k \in 1..n :
                                  output.rows[r][k] = DeclaredCell(res[r], decls[k].name)

\* C12: for TABLE and for LIST queries an empty result renders the
\* placeholder and neither a table nor a list; a result that is not empty
\* renders a table or a list and never the placeholder.
C12_PlaceholderIffEmpty ==
    (pc = "rendered" /\ ~parsed.isNull) =>
        /\ output.kind = "empty" <=> Len(heap[results]) = 0
        /\ output.kind \in {"empty", "table", "list"}
        /\ output.kind = "list" => parsed.type = "LIST"
        /\ output.kind = "table" => parsed.type = "TABLE"

\* a LIST query whose WHERE clause no document passes has rendered the
\* placeholder
C12_Witness ==
    /\ pc = "rendered"
    /\ parsed.type = "LIST"
    /\ Len(parsed.where) > 0
    /\ Len(heap["in"]) > 0
    /\ Len(heap[results]) = 0
    /\ output.kind = "empty"

\* s is `field = value` or `field != value`: a run of characters other
\* than spaces, then = or != with or without spaces around it, then a value
IsComparison(s) ==
    \E k \in 1..Len(s) :
        /\ \A i \in 1..k : s[i] # " "
        /\ \E p \in (k + 1)..Len(s) :
               /\ \A i \in (k + 1)..(p - 1) : s[i] = " "
               /\ \/ s[p] = "=" /\ p < Len(s)
                  \/ s[p] = "!" /\ p + 1 < Len(s) /\ s[p + 1] = "="

BeginsWith(s, word) ==
    Len(s) >= Len(word) /\ \A i \in 1..Len(word) : UpperOf[s[i]] = word[i]

\* the line begins no clause, or is a WHERE line that is no comparison
IsIgnorable(text) ==
    LET s    == DropTrailing(DropLeading(text, {" "}), {" "})
        rest == DropLeading([i \in 1..(Len(s) - Len(KwWhere)) |-> s[i + Len(KwWhere)]], {" "})
    IN  IF BeginsWith(s, KwWhere) THEN ~IsComparison(rest)
        ELSE \A w \in {KwTable, KwList, KwFrom, KwSort} : ~BeginsWith(s, w)

ComparedFields == {Status, Rank}

ComparedLiterals == {Done, DoneLink}

\* the fields f for which the text is `WHERE f != literal`, written with any
\* white space of Gaps around the operator
WrittenNotEquals(text) ==
    {f \in ComparedFields :
        \E kw \in {KwWhere, LowKwWhere}, b \in Gaps, a \in Gaps, v \in ComparedLiterals :
            text = NotEqualsText(kw, f, b, a, v)}

\* C25: a WHERE line `field != value` is parsed into a clause on exactly
\* `field` with operator `!=` for any amount of white space around the
\* operator, none included, and never as an `=` clause: the != clauses of
\* the parsed query are those of the lines written with !=, in order.
C25_NotEqualsAnySpacing ==
    (pc # "start" /\ ~parsed.isNull) =>
        LET IsWritten(l) == WrittenNotEquals(l.text) # {}
            IsRead(c) == c.operator = "!="
            written == SelectSeq(query, IsWritten)
            read == SelectSeq(parsed.where, IsRead)
        IN  /\ Len(read) = Len(written)
            /\ \A k \in 1..Len(written) : WrittenNotEquals(written[k].text) = {read[k].field}

\* how often a document stands in a sequence
Count(seq, d) == Cardinality({i \in 1..Len(seq) : seq[i] = d})

\* the documents that pass FROM and WHERE of the parsed query, unsorted
Passing == FilterWhere(FilterFrom(heap["in"], parsed.from), parsed.where)

\* C28: the sequence executeDataviewQuery returns holds only documents of
\* the input, each at most as often as the input holds it, and the SORT step
\* permutes the documents that passed FROM and WHERE: it adds none and drops
\* none.
C28_OnlyInputDocuments ==
    pc = "executed" =>
        LET res == heap[results]
        IN  /\ SeqRange(res) \subseteq SeqRange(heap["in"])
            /\ \A d \in SeqRange(res) : Count(res, d) <= Count(heap["in"], d)
            /\ Len(res) = Len(Passing)
            /\ \A d \in SeqRange(res) \cup SeqRange(Passing) : Count(res, d) = Count(Passing, d)

\* C28 witness: a sorted query on a set that holds a document twice has
\* returned that document twice
C28_Witness ==
    /\ pc = "executed"
    /\ parsed.sort.present
    /\ heap["in"] = RepeatedDocs
    /\ Count(heap[results], DocA) = 2
    /\ Len(heap[results]) = 3
    /\ heap[results] # heap["in"]

-----------------------------------------------------------------------------
(* The mechanics run: a directive is drawn, then rendered.                 *)

MaxAction == 2

MaxStat == 1

MaxAdds == 1

MaxVs == 3

MoveName == <<"F", "a", "c", "e", " ", "D", "a", "n", "g", "e", "r">>

StatName == <<"e", "d", "g", "e">>

Bar == <<"|">>

\* `iv-move:Face Danger|edge|<action>|<stat>|<adds>|<vs1>|<vs2>`
InlineMoveCode(a) ==
    IvKind(KindMove) \o <<":">>
        \o Join(<<MoveName, StatName, NumToStr(a.action), NumToStr(a.stat),
                  NumToStr(a.adds), NumToStr(a.vs1), NumToStr(a.vs2)>>, Bar)

\* `iv-progress:Face Danger|<progress>|<vs1>|<vs2>|t.md`
InlineProgressCode(a) ==
    IvKind(KindProgress) \o <<":">>
        \o Join(<<MoveName, NumToStr(a.action), NumToStr(a.vs1), NumToStr(a.vs2),
                  <<"t">> \o DotMd>>, Bar)

\* `move "[Face Danger](m:fd)" { roll "edge" action=<action> adds=<adds>
\*  stat=<stat> vs1=<vs1> vs2=<vs2> }`
BlockMoveLine(a) ==
    <<"m", "o", "v", "e", " ", "\"", "[">> \o MoveName \o <<"]", "(", "m", ":", "f", "d", ")", "\"", " ", "{", " ", "r", "o", "l", "l", " ", "\"">> \o StatName
        \o <<"\"", " ", "a", "c", "t", "i", "o", "n", "=">> \o NumToStr(a.action)
        \o <<" ", "a", "d", "d", "s", "=">> \o NumToStr(a.adds)
        \o <<" ", "s", "t", "a", "t", "=">> \o NumToStr(a.stat)
        \o <<" ", "v", "s", "1", "=">> \o NumToStr(a.vs1)
        \o <<" ", "v", "s", "2", "=">> \o NumToStr(a.vs2) \o <<" ", "}">>

RollArgs ==
    [action : 0..MaxAction, stat : 0..MaxStat, adds : 0..MaxAdds,
     vs1 : 0..MaxVs, vs2 : 0..MaxVs]

\* the roll of action 1, stat 2 and adds 0 against 9 and 4
ScenarioArgs == [action |-> 1, stat |-> 2, adds |-> 0, vs1 |-> 9, vs2 |-> 4]

MoveArgs == RollArgs \cup {ScenarioArgs}

ProgressArgs ==
    [action : 0..(MaxAction + MaxStat + MaxAdds), stat : {0}, adds : {0},
     vs1 : 0..MaxVs, vs2 : 0..MaxVs]

\* the directives of the run; kind and args record what the text was
\* written from
Directives ==
    {[form |-> "inline", kind |-> "move", args |-> a, code |-> InlineMoveCode(a)] :
        a \in MoveArgs}
    \cup {[form |-> "inline", kind |-> "progress", args |-> a,
           code |-> InlineProgressCode(a)] : a \in ProgressArgs}
    \cup {[form |-> "block", kind |-> "move", args |-> a, code |-> BlockMoveLine(a)] :
        a \in MoveArgs}

QueryIdle ==
    /\ pc = "idle"
    /\ query = <<>>
    /\ files = "none"
    /\ parsed = "none"
    /\ results = "none"
    /\ heap = <<>>
    /\ output = "none"

\* the node of a directive: inline code, or the code block of a mechanics
\* block
NodeOf(d) ==
    [type |-> IF d.form = "inline" THEN "inlineCode" ELSE "code", value |-> d.code]

MechInit ==
    /\ mpc = "input"
    /\ directive \in Directives
    /\ fragment = NullFragment
    /\ node = NodeOf(directive)
    /\ QueryIdle
    /\ CalloutIdle
    /\ BlockIdle
    /\ MarkdownIdle
    /\ LinkIdle

\* remarkIronVault on an inline code node: parseInlineMechanic is called
\* on a value that begins with `iv-`, with the base URL and without a lookup
\* table, and what it returns replaces the node unless it is null
RenderInline ==
    /\ mpc = "input"
    /\ node.type = "inlineCode"
    /\ LET called == StartsWith(node.value, IvPrefix)
           html   == IF called THEN parseInlineMechanic(node.value, BaseUrl, NoFilesByName)
                     ELSE NullFragment
       IN  /\ fragment' = html
           /\ node' = IF html.kind # "null" THEN [type |-> "html", value |-> html]
                      ELSE node
    /\ mpc' = "rendered"
    /\ UNCHANGED <<directive, queryVars, calloutVars, blockVars, markdownVars, linkVars>>

RenderBlockMove ==
    /\ mpc = "input"
    /\ directive.form = "block"
    /\ fragment' = parseMoveBlock(directive.code)
    /\ mpc' = "rendered"
    /\ UNCHANGED <<directive, node, queryVars, calloutVars, blockVars, markdownVars, linkVars>>

MechNext == RenderInline \/ RenderBlockMove

SpecMech == MechInit /\ [][MechNext]_vars

-----------------------------------------------------------------------------
(* Claims about the mechanic renderers.                                    *)

OutcomeClasses == {"strong-hit", "weak-hit", "miss"}

\* the score of the directive as written: action + stat + adds (the
\* progress of a progress roll)
ScoreOf(a) == a.action + a.stat + a.adds

\* C1: for every move and progress-roll directive, inline and block, the
\* rendered outcome class is strong-hit iff score > vs1 and score > vs2,
\* miss iff score <= vs1 and score <= vs2 and weak-hit otherwise, and the
\* match class is set iff vs1 = vs2, whatever the outcome class is.
C1_OutcomeAndMatch ==
    mpc = "rendered" =>
        LET a   == directive.args
            sc  == ScoreOf(a)
            cls == SeqRange(fragment.classes)
        IN  /\ fragment.kind = "html"
            /\ Cardinality(cls \cap OutcomeClasses) = 1
            /\ "strong-hit" \in cls <=> (sc > a.vs1 /\ sc > a.vs2)
            /\ "miss" \in cls <=> (sc <= a.vs1 /\ sc <= a.vs2)
            /\ "weak-hit" \in cls <=> ~(sc > a.vs1 /\ sc > a.vs2) /\ ~(sc <= a.vs1 /\ sc <= a.vs2)
            /\ "match" \in cls <=> a.vs1 = a.vs2
            /\ fragment.nums = <<sc, a.vs1, a.vs2>>

\* a block move is rendered as a strong hit with a match
C1_Witness ==
    /\ mpc = "rendered"
    /\ directive.form = "block"
    /\ SeqRange(fragment.classes) = {"move", "strong-hit", "match"}
    /\ directive.args.vs1 > 0

\* what the inline renderer and the block renderer make of one roll
InlineOf(a) == parseInlineMechanic(InlineMoveCode(a), BaseUrl, NoFilesByName)

BlockOf(a) == parseMoveBlock(BlockMoveLine(a))

OutcomeOf(f) == SeqRange(f.classes) \cap OutcomeClasses

MatchOf(f) == "match" \in SeqRange(f.classes)

\* C26: for the same non-negative action, stat value, adds, vs1 and vs2 the
\* inline move renderer and the block move renderer compute the same score,
\* action + stat value + adds, the same outcome class and the same match
\* flag: what either has rendered agrees with what the other renders of the
\* same roll.
C26_InlineAndBlockAgree ==
    (mpc = "rendered" /\ directive.kind = "move") =>
        LET a     == directive.args
            other == IF directive.form = "inline" THEN BlockOf(a) ELSE InlineOf(a)
        IN  /\ fragment.kind = "html" /\ other.kind = "html"
            /\ fragment.nums[1] = ScoreOf(a) /\ other.nums[1] = ScoreOf(a)
            /\ Cardinality(OutcomeOf(fragment)) = 1
            /\ OutcomeOf(fragment) = OutcomeOf(other)
            /\ MatchOf(fragment) = MatchOf(other)

\* C26 witness: the inline move of 1, 2 and 0 against 9 and 4 is rendered
\* with score 3 as a miss without a match, and so is the block move
C26_Witness ==
    /\ mpc = "rendered"
    /\ directive.form = "inline" /\ directive.kind = "move"
    /\ directive.args = ScenarioArgs
    /\ fragment.nums = <<3, 9, 4>>
    /\ OutcomeOf(fragment) = {"miss"} /\ ~MatchOf(fragment)
    /\ BlockOf(ScenarioArgs).nums = <<3, 9, 4>>
    /\ OutcomeOf(BlockOf(ScenarioArgs)) = {"miss"} /\ ~MatchOf(BlockOf(ScenarioArgs))

-----------------------------------------------------------------------------
(* The callout pass: a content is drawn as its lines, then scanned line by *)
(* line.                                                                   *)

\* the longest content, in lines
MaxInput == 4

HeaderNote == <<">", " ", "[", "!", "n", "o", "t", "e", "]", " ", "T", "i", "t", "l", "e">>

HeaderTip == <<">", "[", "!", "T", "I", "P", "]", "-">>

QuotedBody == <<">", " ", "b", "o", "d", "y">>

NestedHeader == <<">", " ", ">", " ", "[", "!", "i", "n", "f", "o", "]", " ", "I", "n">>

PlainText == <<"t", "e", "x", "t">>

CalloutLines == {HeaderNote, HeaderTip, QuotedBody, NestedHeader, PlainText, <<>>, <<" ">>}

Contents == {c \in SeqsOf(CalloutLines, MaxInput) : Len(c) >= 1}

CalloutInit ==
    /\ cpc = "scan"
    /\ \E lines \in Contents : co = CalloutStart(lines)
    /\ MechIdle
    /\ QueryIdle
    /\ BlockIdle
    /\ MarkdownIdle
    /\ LinkIdle

\* the body of the for loop
ScanLine ==
    /\ cpc = "scan"
    /\ co.i < Len(co.lines)
    /\ co' = CalloutStep(co)
    /\ UNCHANGED <<cpc, mechVars, queryVars, blockVars, markdownVars, linkVars>>

\* the flush behind the loop and the return
FinishScan ==
    /\ cpc = "scan"
    /\ co.i = Len(co.lines)
    /\ co' = CalloutEnd(co)
    /\ cpc' = "done"
    /\ UNCHANGED <<mechVars, queryVars, blockVars, markdownVars, linkVars>>

CalloutNext == ScanLine \/ FinishScan

SpecCallout == CalloutInit /\ [][CalloutNext]_vars

\* the lines processCallouts returns
CalloutOutput == JoinLines(co.result)

\* the line holds nothing but spaces
IsBlank(line) == \A k \in 1..Len(line) : line[k] = " "

IsQuoted(line) == Len(line) >= 1 /\ line[1] = ">"

\* the line is a callout header: >, spaces or none, [!, a type of one or
\* more characters other than ], and ]
IsHeader(line) ==
    /\ IsQuoted(line)
    /\ \E p \in 2..Len(line), q \in 4..Len(line) :
           /\ \A k \in 2..(p - 1) : line[k] = " "
           /\ line[p] = "[" /\ p + 1 < q /\ line[p + 1] = "!"
           /\ line[q] = "]"
           /\ \A k \in (p + 2)..(q - 1) : line[k] # "]"

\* an element of result that is a rendered callout
IsBlock(e) == Len(e) > 1

Blocks(result) == SelectSeq(result, IsBlock)

\* the body a rendered callout shows: its lines between the two empty
\* lines around the content
BodyOf(block, isCollapsible) ==
    LET first == IF isCollapsible THEN 9 ELSE 8
    IN  SubSeq(block, first, Len(block) - 3)

\* C14: a blank line met while INSIDE keeps the callout open when the next
\* line starts with the quote marker: an empty body line is buffered and
\* nothing is rendered or emitted.  When the next line does not start with
\* the quote marker, or there is none, it closes the callout: the callout
\* is rendered, the blank line is emitted behind it as it is, and the scan
\* is OUTSIDE.
C14_BlankLineInside ==
    [][ (/\ cpc = "scan"
         /\ co.i < Len(co.lines)
         /\ co.inCallout
         /\ IsBlank(co.lines[co.i + 1])) =>
            IF co.i + 2 <= Len(co.lines) /\ IsQuoted(co.lines[co.i + 2])
            THEN /\ co'.inCallout
                 /\ co'.calloutContent = Append(co.calloutContent, <<>>)
                 /\ co'.result = co.result
            ELSE /\ ~co'.inCallout
                 /\ co'.calloutContent = <<>>
                 /\ Len(co'.result) = Len(co.result) + 2
                 /\ SubSeq(co'.result, 1, Len(co.result)) = co.result
                 /\ IsBlock(co'.result[Len(co.result) + 1])
                 /\ BodyOf(co'.result[Len(co.result) + 1], co.isCollapsible)
                        = ContentHtml(co.calloutContent)
                 /\ co'.result[Len(co.result) + 2] = <<co.lines[co.i + 1]>>
      ]_vars

\* header, body, blank line, body: one callout is rendered, and its body
\* spans the blank line
C14_Witness ==
    /\ cpc = "done"
    /\ co.lines = <<HeaderNote, QuotedBody, <<>>, QuotedBody>>
    /\ Len(co.result) = 1
    /\ BodyOf(co.result[1], FALSE) = <<<<"b", "o", "d", "y">>, <<>>, <<"b", "o", "d", "y">>>>

\* C15: the output of processCallouts holds no line that matches the
\* callout header pattern, and processCallouts returns its own output
\* unchanged.
C15_Idempotent ==
    cpc = "done" =>
        /\ \A k \in 1..Len(CalloutOutput) : ~CalloutMatch(CalloutOutput[k]).ok
        /\ processCallouts(CalloutOutput) = CalloutOutput

Headers(lines) == SelectSeq(lines, IsHeader)

\* C16: the callouts rendered are as many as the lines that match the
\* header pattern, and they are rendered in the order of their headers: the
\* k-th callout has the type and the fold of the k-th header line.
C16_OneCalloutPerHeader ==
    cpc = "done" =>
        LET blocks  == Blocks(co.result)
            headers == Headers(co.lines)
        IN  /\ Len(blocks) = Len(headers)
            /\ \A k \in 1..Len(blocks) :
                   LET m == CalloutMatch(headers[k])
                   IN  blocks[k][1] =
                           renderCallout(ToLowerCase(m.type), m.title, <<>>,
                                         Len(m.fold) > 0)[1]

\* two headers with no line between them and no line behind them: two
\* callouts are rendered, the note before the tip
C16_Witness ==
    /\ cpc = "done"
    /\ co.lines = <<HeaderNote, HeaderTip>>
    /\ Len(co.result) = 2
    /\ IsBlock(co.result[1])
    /\ IsBlock(co.result[2])
    /\ co.result[2][1] = renderCallout(<<"t", "i", "p">>, <<>>, <<>>, TRUE)[1]

\* line i is taken into the body of a callout: a header precedes it, and
\* every line behind that header up to line i is a quoted line that is no
\* header or a blank line followed by a quoted line
IsAbsorbed(lines, i) ==
    \E h \in 1..(i - 1) :
        /\ IsHeader(lines[h])
        /\ \A j \in (h + 1)..i :
               \/ IsQuoted(lines[j]) /\ ~IsHeader(lines[j])
               \/ /\ IsBlank(lines[j])
                  /\ j + 1 <= Len(lines)
                  /\ IsQuoted(lines[j + 1])

\* the places of the lines that are neither header nor body
PassedPlaces(lines) ==
    {i \in 1..Len(lines) : ~IsHeader(lines[i]) /\ ~IsAbsorbed(lines, i)}

\* the k-th smallest element of a set of numbers
RECURSIVE Ordered(_)
Ordered(set) ==
    IF set = {} THEN <<>>
    ELSE LET m == CHOOSE m \in set : \A x \in set : m <= x
         IN  <<m>> \o Ordered(set \ {m})

\* C17: the lines that are neither a callout header nor taken into a
\* callout body are emitted once each, unchanged and in their order; a line
\* that ends a callout stands right behind the rendered callout; a content
\* without a header is returned as it is.
C17_OtherLinesPassThrough ==
    cpc = "done" =>
        LET places == Ordered(PassedPlaces(co.lines))
            IsLine(e) == ~IsBlock(e)
            emitted == SelectSeq(co.result, IsLine)
        IN  /\ emitted = [k \in 1..Len(places) |-> <<co.lines[places[k]]>>]
            /\ \A k \in 1..Len(places) :
                   LET i == places[k]
                       r == CHOOSE r \in 1..Len(co.result) :
                                /\ ~IsBlock(co.result[r])
                                /\ Cardinality({x \in 1..r : ~IsBlock(co.result[x])}) = k
                   IN  (i > 1 /\ i - 1 \notin PassedPlaces(co.lines)) =>
                           /\ r > 1
                           /\ IsBlock(co.result[r - 1])
                           /\ Cardinality({x \in 1..r : IsBlock(co.result[x])})
                                  = Len(Headers(SubSeq(co.lines, 1, i - 1)))
            /\ Len(Headers(co.lines)) = 0 => CalloutOutput = co.lines

\* a quoted line before the callout, and a text line that ends it, are
\* emitted around the rendered callout
C17_Witness ==
    /\ cpc = "done"
    /\ co.lines = <<QuotedBody, HeaderNote, QuotedBody, PlainText>>
    /\ Len(co.result) = 3
    /\ co.result[1] = <<QuotedBody>>
    /\ IsBlock(co.result[2])
    /\ co.result[3] = <<PlainText>>

-----------------------------------------------------------------------------
(* The block run: parseIronVaultBlock on the text of a mechanics block,    *)
(* one pass of its outer loop at a time.                                   *)

MaxBlock == 3

BaseUrlSite == <<"/", "s">>

MoveOpen == <<"m", "o", "v", "e", " ", "\"", "S", "t", "r", "i", "k", "e", "\"", " ", "{">>

RollLine == <<" ", " ", "r", "o", "l", "l", " ", "\"", "I", "r", "o", "n", "\"", " ", "a", "c", "t", "i", "o", "n", "=", "2", " ", "a", "d", "d", "s", "=", "0", " ", "s", "t", "a", "t", "=", "1", " ", "v", "s", "1", "=", "3", " ", "v", "s", "2", "=", "6">>

CloseLine == <<"}">>

MoveBad == <<"m", "o", "v", "e", " ", "f", "o", "o">>

OracleOne == <<"o", "r", "a", "c", "l", "e", " ", "n", "a", "m", "e", "=", "\"", "[", "A", "c", "t", "]", "(", "o", ":", "a", ")", "\"", " ", "r", "e", "s", "u", "l", "t", "=", "\"", "G", "o", "\"", " ", "r", "o", "l", "l", "=", "7">>

OracleBad == <<"o", "r", "a", "c", "l", "e", " ", "f", "o", "o">>

GroupOpen == <<"o", "r", "a", "c", "l", "e", "-", "g", "r", "o", "u", "p", " ", "n", "a", "m", "e", "=", "\"", "G", "\"", " ", "{">>

TrackOne == <<"t", "r", "a", "c", "k", " ", "n", "a", "m", "e", "=", "\"", "[", "[", "p", "/", "T", ".", "m", "d", "|", "T", "]", "]", "\"", " ", "s", "t", "a", "t", "u", "s", "=", "\"", "a", "d", "d", "e", "d", "\"">>

TrackBad == <<"t", "r", "a", "c", "k", " ", "f", "o", "o">>

BlockLines ==
    {MoveOpen, RollLine, CloseLine, MoveBad, OracleOne, OracleBad, GroupOpen,
     TrackOne, TrackBad}

\* the lines of content.trim(): no space begins the first, none ends the last
BlockTexts ==
    {t \in DistinctSeqs(BlockLines, MaxBlock) :
        /\ Len(t) > 0
        /\ ~IsSpace(t[1][1])
        /\ ~IsSpace(t[Len(t)][Len(t[Len(t)])])}

BlockInit ==
    /\ bpc = "scan"
    /\ blk \in {BlockStart(t) : t \in BlockTexts}
    /\ MechIdle
    /\ QueryIdle
    /\ CalloutIdle
    /\ MarkdownIdle
    /\ LinkIdle

\* a call after at most n passes of the outer loop
RECURSIVE AfterPasses(_, _)
AfterPasses(st, n) ==
    IF n = 0 \/ ~(st.i < Len(st.lines)) THEN st
    ELSE AfterPasses(BlockStep(st, BaseUrlSite), n - 1)

\* the states in which the calls of the run take a pass
ScanStates ==
    {st \in {AfterPasses(BlockStart(t), n) : t \in BlockTexts, n \in 0..(MaxBlock - 1)} :
        st.i < Len(st.lines)}

\* BlockStep tabulated over the states of the run, so that whether a pass
\* can be taken is answered by a lookup
PassOf == [st \in ScanStates |-> BlockStep(st, BaseUrlSite)]

\* one pass of the outer loop, the inner loop of a move or an oracle group
\* included
ScanUnit ==
    /\ bpc = "scan"
    /\ blk.i < Len(blk.lines)
    /\ blk' = PassOf[blk]
    /\ UNCHANGED <<bpc, mechVars, queryVars, calloutVars, markdownVars, linkVars>>

\* the loop is left and the results are wrapped
FinishBlock ==
    /\ bpc = "scan"
    /\ ~(blk.i < Len(blk.lines))
    /\ blk' = BlockEnd(blk)
    /\ bpc' = "done"
    /\ UNCHANGED <<mechVars, queryVars, calloutVars, markdownVars, linkVars>>

BlockNext == ScanUnit \/ FinishBlock

\* the call runs on: a pass that can be taken is taken
SpecBlock == BlockInit /\ [][BlockNext]_vars /\ WF_vars(BlockNext)

-----------------------------------------------------------------------------
(* Claims about the mechanics block parser.                                *)

BlockKeywords == {<<"m", "o", "v", "e", " ">>, <<"o", "r", "a", "c", "l", "e", "-", "g", "r", "o", "u", "p", " ">>, <<"o", "r", "a", "c", "l", "e", " ">>, <<"t", "r", "a", "c", "k", " ">>}

IsDirectiveLine(line) == \E kw \in BlockKeywords : StartsWith(Trim(line), kw)

SpansLines(line) ==
    StartsWith(Trim(line), <<"m", "o", "v", "e", " ">>) \/ StartsWith(Trim(line), <<"o", "r", "a", "c", "l", "e", "-", "g", "r", "o", "u", "p", " ">>)

\* the braces left open by the lines a..e of a text
RECURSIVE OpenBraces(_, _, _)
OpenBraces(text, a, e) ==
    IF e < a THEN 0 ELSE OpenBraces(text, a, e - 1) + BraceBalance(text[e])

ClosedAt(text, a) == {e \in a..Len(text) : OpenBraces(text, a, e) <= 0}

Unbalanced(text, a) == SpansLines(text[a]) /\ ClosedAt(text, a) = {}

\* the last line of the directive that line a begins
LastLineOf(text, a) ==
    IF ~SpansLines(text[a]) THEN a
    ELSE IF ClosedAt(text, a) = {} THEN Len(text)
    ELSE CHOOSE e \in ClosedAt(text, a) : \A f \in ClosedAt(text, a) : e <= f

\* the lines that begin a directive and lie in no directive before them
RECURSIVE HeadsFrom(_, _)
HeadsFrom(text, a) ==
    IF a > Len(text) THEN {}
    ELSE IF IsDirectiveLine(text[a]) THEN {a} \cup HeadsFrom(text, LastLineOf(text, a) + 1)
    ELSE HeadsFrom(text, a + 1)

\* the text of the directive that line a begins, its lines joined
UnitText(text, a) ==
    Join(<<Trim(text[a])>> \o SubSeq(text, a + 1, LastLineOf(text, a)), <<" ">>)

IsErrorMarker(html) == html.classes = <<"iv-parse-error">>

BlockDone == bpc = "done"

\* the arguments of a directive can be read when they hold its name
NameReadable(kind, text) ==
    IF kind = "move" THEN Search(text, MoveNameRe).ok /\ Search(text, MoveRollRe).ok
    ELSE IF kind = "oracle-group" THEN Search(text, GroupNameRe).ok
    ELSE IF kind = "track" THEN Search(text, TrackNameRe).ok
    ELSE Search(text, NameRe).ok

\* the class of the element a directive is rendered as
ClassOfKind(kind) == IF kind = "track" THEN "track-status" ELSE kind

\* C18: parseIronVaultBlock terminates on every text; the line index grows
\* on every pass of the loop; a move or an oracle group whose braces are
\* never closed takes the lines up to the end of the block and is the last
\* directive; every line that begins a directive outside the directives
\* before it is rendered, and a move whose name and roll can be read is
\* rendered as a move, as is each other directive whose name can be read.
C18_Terminates ==
    /\ [][(bpc = "scan" /\ bpc' = "scan") => blk'.i > blk.i]_vars
    /\ <>BlockDone
    /\ [](BlockDone =>
            /\ blk.i >= Len(blk.lines)
            /\ Len(blk.results) = Len(blk.units)
            /\ blk.html.children = blk.results
            /\ {blk.units[k].at + 1 : k \in 1..Len(blk.units)} = HeadsFrom(blk.lines, 1)
            /\ \A k \in 1..Len(blk.units) :
                 LET u == blk.units[k]
                 IN  /\ u.text = UnitText(blk.lines, u.at + 1)
                     /\ Unbalanced(blk.lines, u.at + 1) =>
                            /\ k = Len(blk.units)
                            /\ LastLineOf(blk.lines, u.at + 1) = Len(blk.lines)
                     /\ NameReadable(u.kind, u.text) =>
                            blk.results[k].classes[1] = ClassOfKind(u.kind))

\* C18 witness: an oracle and then a move whose brace is never closed; the
\* move has taken the roll line and both are rendered
C18_Witness ==
    /\ BlockDone
    /\ blk.lines = <<OracleOne, MoveOpen, RollLine>>
    /\ Len(blk.results) = 2
    /\ blk.results[1].classes = <<"oracle">>
    /\ blk.results[2].classes = <<"move", "miss">>

\* the lines of the k-th unit: the line that begins it and those taken into it
LinesOfUnit(k) == (blk.units[k].at + 1)..(blk.units[k].at + blk.units[k].count)

\* C27: in parseIronVaultBlock every physical line belongs to at most one
\* unit; a line taken into a move or an oracle group that spans lines is
\* never rendered as a directive of its own; the fragments stand in the
\* order of the first lines of their units, one fragment for each unit.
C27_OneUnitPerLine ==
    /\ bpc \in {"scan", "done"} =>
           /\ Len(blk.results) = Len(blk.units)
           /\ \A k \in 1..Len(blk.units) :
                  /\ blk.units[k].count >= 1
                  /\ LinesOfUnit(k) \subseteq 1..blk.i
                  /\ \A j \in 1..(k - 1) :
                         /\ blk.units[j].at < blk.units[k].at
                         /\ LinesOfUnit(j) \cap LinesOfUnit(k) = {}
    /\ BlockDone =>
           /\ blk.html.children = blk.results
           /\ \A k \in 1..Len(blk.units) :
                  blk.results[k] =
                      LET text == Join(<<Trim(blk.lines[blk.units[k].at + 1])>>
                                       \o [n \in 1..(blk.units[k].count - 1) |->
                                              blk.lines[blk.units[k].at + 1 + n]], <<" ">>)
                          kind == blk.units[k].kind
                      IN  IF kind = "move" THEN parseMoveBlock(text)
                          ELSE IF kind = "oracle-group" THEN parseOracleGroupBlock(text)
                          ELSE IF kind = "oracle" THEN parseOracleBlock(text)
                          ELSE parseTrackBlock(text, BaseUrlSite)

\* C27 witness: a track, then an oracle group that has taken the oracle
\* line behind it; two fragments, the track first, none for the oracle line
C27_Witness ==
    /\ BlockDone
    /\ blk.lines = <<TrackOne, GroupOpen, OracleOne>>
    /\ Len(blk.results) = 2
    /\ LinesOfUnit(1) = {1}
    /\ LinesOfUnit(2) = {2, 3}
    /\ blk.results[1].classes = <<"track-status">>
    /\ blk.results[2].classes = <<"oracle-group">>

\* a text without its lines a..e
WithoutLines(text, a, e) == SubSeq(text, 1, a - 1) \o SubSeq(text, e + 1, Len(text))

\* a sequence without its k-th element
WithoutAt(seq, k) == SubSeq(seq, 1, k - 1) \o SubSeq(seq, k + 1, Len(seq))

\* C19: every directive of a block (move, oracle, oracle-group, track) whose
\* arguments cannot be read is rendered as an error marker, and the other
\* directives of the block are rendered as they are in the block without it.
C19_ErrorMarkerPerDirective ==
    BlockDone =>
        \A k \in 1..Len(blk.units) :
            LET u == blk.units[k]
            IN  ~NameReadable(u.kind, u.text) =>
                    /\ IsErrorMarker(blk.results[k])
                    /\ WithoutAt(blk.results, k)
                         = parseIronVaultBlock(
                               WithoutLines(blk.lines, u.at + 1,
                                            LastLineOf(blk.lines, u.at + 1)),
                               BaseUrlSite).children

-----------------------------------------------------------------------------
(* The inline run: remarkIronVault on inline code nodes of every shape, a  *)
(* code being a head, a separator and a content.                           *)

KnownKinds ==
    {KindMove, KindOracle, KindMeter, KindInitiative, KindTrackCreate,
     KindTrackAdvance, KindProgress, KindNoRoll, KindEntityCreate}

CodeHeads ==
    {IvKind(k) : k \in KnownKinds}
        \cup {<<"i", "v", "-", "f", "o", "o">>, <<"i", "v", "-", "M", "o", "v", "e">>, <<"i", "v", "-", "m", "o", "v", "e", "s">>, <<"i", "v", "-">>, <<"i", "v">>, <<"m", "o", "v", "e">>, <<"I", "V", "-", "m", "o", "v", "e">>,
              <<" ", "i", "v", "-", "m", "o", "v", "e">>, <<>>}

CodeSeparators == {<<":">>, <<>>, <<"|">>}

CodeContents == {<<>>, <<"T", "|", "t", ".", "m", "d", "|", "0", "|", "4", "4", "|", "x", "|">>, <<"T", "|", "t", ".", "m", "d", "|", "0", "|", "9">>, <<"A", "|", "1", "|", "2", "|", "3", "|", "4", "|", "5", "|", "6">>, <<"N", "p", "c", "|", "K", "a", "y", "|", "p", "/", "k", ".", "m", "d">>, <<"a", ":", "b">>}

InlineCodes == {h \o p \o c : h \in CodeHeads, p \in CodeSeparators, c \in CodeContents}

NoArgs == [action |-> 0, stat |-> 0, adds |-> 0, vs1 |-> 0, vs2 |-> 0]

InlineInit ==
    /\ mpc = "input"
    /\ directive \in {[form |-> "inline", kind |-> "any", args |-> NoArgs, code |-> c] :
                         c \in InlineCodes}
    /\ fragment = NullFragment
    /\ node = NodeOf(directive)
    /\ QueryIdle
    /\ CalloutIdle
    /\ BlockIdle
    /\ MarkdownIdle
    /\ LinkIdle

SpecInline == InlineInit /\ [][RenderInline]_vars

-----------------------------------------------------------------------------
(* Claims about the inline run.                                            *)

\* a code of a known kind: a known type and the separator behind it
IsKnownCode(code) == \E k \in KnownKinds : StartsWith(code, IvKind(k) \o <<":">>)

\* C20: for every inline code that does not begin with `iv-`, holds no `:`
\* or names a kind outside the nine known ones, parseInlineMechanic returns
\* null and the node is left as it was; for every code of a known kind it
\* returns an HTML fragment, which replaces the node.
C20_PassthroughOrHtml ==
    mpc = "rendered" =>
        LET code == directive.code
            html == parseInlineMechanic(code, BaseUrl, NoFilesByName)
        IN  IF IsKnownCode(code)
            THEN /\ html.kind = "html"
                 /\ fragment = html
                 /\ node.type = "html"
                 /\ node.value = html
            ELSE /\ html = NullFragment
                 /\ fragment = NullFragment
                 /\ node.type = "inlineCode"
                 /\ node.value = code

\* C20 witness: a code of an unknown kind behind the marker has been
\* visited and its node is still inline code
C20_Witness ==
    /\ mpc = "rendered"
    /\ directive.code = <<"i", "v", "-", "f", "o", "o", ":", "a", ":", "b">>
    /\ node.type = "inlineCode"

\* the known kind of a code
KindOfCode(code) == CHOOSE k \in KnownKinds : StartsWith(code, IvKind(k) \o <<":">>)

\* the positional fields of a code of a known kind
FieldsOfCode(code) ==
    Split(SubstringFrom(code, Len(IvKind(KindOfCode(code))) + 1), "|")

IsNumeral(s) == Len(s) > 0 /\ \A k \in 1..Len(s) : IsDigit(s[k])

\* the number a positional field stands for: zero when the field is absent
\* or no numeral
FieldNumber(parts, i) ==
    IF HasPart(parts, i) /\ IsNumeral(parts[i + 1]) THEN DigitsVal(parts[i + 1]) ELSE 0

\* the numbers a rendered fragment shows when every numeric field that is
\* absent or no numeral counts as zero and an advance of zero steps counts
\* as stepsIfNone
NumbersShown(code, stepsIfNone) ==
    LET k == KindOfCode(code)
        f == FieldsOfCode(code)
        N(i) == FieldNumber(f, i)
    IN  IF k = KindMove THEN <<N(2) + N(3) + N(4), N(5), N(6)>>
        ELSE IF k = KindMeter THEN <<N(1), N(2)>>
        ELSE IF k = KindProgress THEN <<N(1), N(2), N(3)>>
        ELSE <<IF N(5) = 0 THEN stepsIfNone ELSE N(5), N(3) \div 4>>

HasNumbers(code) ==
    IsKnownCode(code)
        /\ KindOfCode(code) \in {KindMove, KindMeter, KindProgress, KindTrackAdvance}

C22_BoxesWithinScale ==
    (mpc = "rendered" /\ IsKnownCode(directive.code)
        /\ KindOfCode(directive.code) = KindTrackAdvance) =>
            /\ fragment.nums[2] = FieldNumber(FieldsOfCode(directive.code), 3) \div 4
            /\ fragment.nums[2] \in 0..10

\* the paths of the documents the codes of the run name
ContentPaths == {<<"t", ".", "m", "d">>, <<"p", "/", "k", ".", "m", "d">>}

\* the kinds whose fragment is a link to a document, with the place of the
\* path among the positional fields
PathPlace == [k \in {KindTrackCreate, KindTrackAdvance} |-> 1] @@ (KindEntityCreate :> 2)

\* C29: for every document, the slugified fallback link computed from the
\* document's path is the same URL as the link built from the document's
\* own slug, the slug the content loader gives it: a directive that names a
\* document by its path is rendered with the link base URL + "/" + slug.
C29_FallbackIsSlugLink ==
    (mpc = "rendered" /\ IsKnownCode(directive.code)
        /\ KindOfCode(directive.code) \in DOMAIN PathPlace) =>
        LET parts == FieldsOfCode(directive.code)
            place == PathPlace[KindOfCode(directive.code)]
        IN  \A p \in ContentPaths :
                (HasPart(parts, place) /\ parts[place + 1] = p) =>
                    fragment.href = BaseUrl \o <<"/">> \o pathToSlug_content(p)

-----------------------------------------------------------------------------
(* The markdown run: processMarkdown on a content put together from        *)
(* pieces, one pass at a time.                                             *)

MaxPieces == 3

PieceBreak == <<"\r", "\n">>

PieceFence == <<"\n">> \o Fence

PieceCallout == <<">", " ", "[", "!", "n", "o", "t", "e", "]", " ", "T">>

PieceLink == <<"[", "[", "P", "a", "g", "e", "]", "]">>

PieceLinkSpaced == <<"[", "[", " ", "p", "a", "g", "e", " ", "|", "T", "e", "x", "t", "]", "]">>

PieceLinkNowhere == <<"[", "[", "N", "o", " ", "W", "h", "e", "r", "e", "]", "]">>

PieceEmbed == <<"!", "[", "[", "P", "a", "g", "e", "]", "]">>

PieceEmbedOpen == <<"!", "[", "[", "P", "a", "g", "e", "|">>

PieceImage == <<"!", "[", "[", "a", ".", "P", "N", "G", "]", "]">>

PieceImageSized == <<"!", "[", "[", "b", ".", "p", "n", "g", "|", "c", "e", "n", "t", "e", "r", "|", "1", "0", "0", "]", "]">>

PieceText == <<"x">>

PieceClose == <<"]", "]">>

Pieces ==
    {PieceBreak, PieceFence, PieceCallout, PieceLink, PieceLinkSpaced, PieceLinkNowhere,
     PieceEmbed, PieceEmbedOpen, PieceImage, PieceImageSized, PieceText, PieceClose}

MarkdownContents == {JoinLines(q) : q \in DistinctSeqs(Pieces, MaxPieces)}

\* docs/Page.md with the slug the content loader gives it
PageDoc == Doc(<<"d", "o", "c", "s", "/", "P", "a", "g", "e", ".", "m", "d">>, <<"d", "o", "c", "s", "/", "p", "a", "g", "e">>, <<"P", "a", "g", "e">>, <<>>)

FileSets == {<<PageDoc>>}

MarkdownInit ==
    /\ ppc = "start"
    /\ \E content \in MarkdownContents, allFiles \in FileSets :
           md = [content |-> content, allFiles |-> allFiles, baseUrl |-> BaseUrlSite,
                 processed |-> <<>>, filesByName |-> <<>>]
    /\ MechIdle
    /\ QueryIdle
    /\ CalloutIdle
    /\ BlockIdle
    /\ LinkIdle

\* the step of processMarkdown behind the pass named by ppc
MarkdownStep(from, to, processed, filesByName) ==
    /\ ppc = from
    /\ ppc' = to
    /\ md' = [md EXCEPT !.processed = processed, !.filesByName = filesByName]
    /\ UNCHANGED <<mechVars, queryVars, calloutVars, blockVars, linkVars>>

NormalizePass ==
    MarkdownStep("start", "normalized", NormalizeLineEndings(md.content), md.filesByName)

FencePass ==
    MarkdownStep("normalized", "fenced", BlankBeforeFences(md.processed), md.filesByName)

IndexFiles ==
    MarkdownStep("fenced", "indexed", md.processed, BuildFilesByName(md.allFiles))

CalloutPass ==
    MarkdownStep("indexed", "callouts", CalloutsOf(md.processed), md.filesByName)

ImagePass ==
    MarkdownStep("callouts", "images",
                 ReplacePass("images", md.processed, md.filesByName, md.baseUrl),
                 md.filesByName)

EmbedPass ==
    MarkdownStep("images", "embeds",
                 ReplacePass("embeds", md.processed, md.filesByName, md.baseUrl),
                 md.filesByName)

WikilinkPass ==
    MarkdownStep("embeds", "links",
                 ReplacePass("links", md.processed, md.filesByName, md.baseUrl),
                 md.filesByName)

MarkdownNext ==
    \/ NormalizePass
    \/ FencePass
    \/ IndexFiles
    \/ CalloutPass
    \/ ImagePass
    \/ EmbedPass
    \/ WikilinkPass

SpecMarkdown == MarkdownInit /\ [][MarkdownNext]_vars

-----------------------------------------------------------------------------
(* Claims about the markdown run.                                          *)

PassOrder == <<"start", "normalized", "fenced", "indexed", "callouts", "images", "embeds", "links">>

\* the text holds a match of the pattern of a pass
HasMatch(pass, s) == \E i \in 1..Len(s) : PassMatchAt(pass, s, i).ok

\* C23: the passes of processMarkdown run in the order line endings,
\* callouts, image transclusions, generic transclusions, wikilinks; the
\* text handed to the generic transclusion pass holds no image transclusion
\* and the text handed to the wikilink pass holds no transclusion, so
\* neither pass rewrites what belongs to a pass before it.
C23_PassesInOrder ==
    /\ [][\E k \in 1..(Len(PassOrder) - 1) : ppc = PassOrder[k] /\ ppc' = PassOrder[k + 1]]_vars
    /\ [](ppc = "images" => ~HasMatch("images", md.processed))
    /\ [](ppc = "embeds" => ~HasMatch("embeds", md.processed))

\* the documents whose title or filename is the name, whatever the case of
\* the letters
FilesNamed(name, allFiles) ==
    {k \in 1..Len(allFiles) :
        \/ ToLowerCase(allFiles[k].title) = ToLowerCase(name)
        \/ ToLowerCase(FilenameOf(allFiles[k].path)) = ToLowerCase(name)}

\* the address a target is linked to: the slug of the document named like
\* name when there is one, the slugified target otherwise
AddressOf(target, name, allFiles, baseUrl) ==
    LET named == FilesNamed(name, allFiles)
    IN  baseUrl \o <<"/">>
            \o (IF named # {} THEN allFiles[CHOOSE k \in named : TRUE].slug
                ELSE pathToSlug(target \o DotMd))

\* the link a match of the transclusion or the wikilink pass stands for
LinkFor(pass, caps, address) ==
    LET shown == IF Len(caps[2]) > 0 THEN caps[2] ELSE caps[1]
    IN  IF pass = "embeds"
        THEN <<"<", "d", "i", "v", " ", "c", "l", "a", "s", "s", "=", "\"", "e", "m", "b", "e", "d", "-", "l", "i", "n", "k", "\"", ">", "<", "a", " ", "h", "r", "e", "f", "=", "\"">> \o address \o <<"\"", ">">> \o shown \o <<"<", "/", "a", ">", "<", "/", "d", "i", "v", ">">>
        ELSE <<"[">> \o shown \o <<"]", "(">> \o address \o <<")">>

\* the text of a pass with every match replaced by its link; a target is
\* looked up by itself, or trimmed of the white space around it
Linked(pass, s, allFiles, baseUrl, trimmed) ==
    LET segs == Segments(pass, s)
        Name(target) == IF trimmed THEN Trim(target) ELSE target
    IN  JoinLines([k \in 1..Len(segs) |->
            IF ~segs[k].isMatch THEN segs[k].text
            ELSE LinkFor(pass, segs[k].caps,
                         AddressOf(segs[k].caps[1], Name(segs[k].caps[1]), allFiles, baseUrl))])

LinkingPasses == {<<"images", "embeds">>, <<"embeds", "links">>}

\* C24 as stated: every generic transclusion and every wikilink becomes a
\* link to the slug of the document whose title or filename equals the
\* target, case ignored, and to the slugified target when there is none.
C24_LinkedByTarget ==
    [][\A p \in LinkingPasses :
          (ppc = p[1] /\ ppc' = p[2]) =>
              md'.processed = Linked(p[2], md.processed, md.allFiles, md.baseUrl, FALSE)]_vars

\* C24: as above, the target being compared without the white space around
\* it.
C24_LinkedByTrimmedTarget ==
    [][\A p \in LinkingPasses :
          (ppc = p[1] /\ ppc' = p[2]) =>
              md'.processed = Linked(p[2], md.processed, md.allFiles, md.baseUrl, TRUE)]_vars

\* C24 witness: a wikilink to a document and one to no document have been
\* converted
C24_Witness ==
    /\ ppc = "links"
    /\ md.allFiles = <<PageDoc>>
    /\ md.content = PieceLink \o PieceLinkNowhere
    /\ md.processed = <<"[", "P", "a", "g", "e", "]", "(", "/", "s", "/", "d", "o", "c", "s", "/", "p", "a", "g", "e", ")", "[", "N", "o", " ", "W", "h", "e", "r", "e", "]", "(", "/", "s", "/", "/", "n", "o", "-", "w", "h", "e", "r", "e", ")">>

-----------------------------------------------------------------------------
(* The link fixer run: the script starts on a document, elements are added *)
(* from outside, and the observer, the timer and the calls of processLinks *)
(* take their turns.  The observer is called at the end of the task that   *)
(* changed the document, before anything else runs.                        *)

MaxBursts == 2

SpanOf(kind, path) == [tag |-> "span", kind |-> kind, path |-> path, href |-> <<>>, times |-> 0]

Div == [tag |-> "div", kind |-> "none", path |-> <<>>, href |-> <<>>, times |-> 0]

Place(outer, inner) == [outer |-> outer, inner |-> inner]

TrackPath == <<"t", "/", "M", "y", " ", "V", "o", "w", ".", "m", "d">>

OtherTrackPath == <<"t", "/", "O", "a", "t", "h", ".", "m", "d">>

EntityPath == <<"n", "p", "c", "s", "/", "K", "a", "y", ".", "m", "d">>

EntityName == <<"K", "a", "y">>

EntityUnknown == <<"Z", "e", "d">>

\* the index a successful fetch loads
SiteIndex == [loaded |-> TRUE, documentIds |-> <<<<"n", "p", "c", "s", "/", "k", "a", "y", ".", "h", "t", "m", "l">>>>]

\* what is added in one piece: a span, a span in a container, a span that
\* holds another span
Additions ==
    {Place(SpanOf("track", TrackPath), NoElement),
     Place(SpanOf("entity", EntityPath), NoElement),
     Place(SpanOf("entity", EntityName), NoElement),
     Place(SpanOf("entity", EntityUnknown), NoElement),
     Place(Div, SpanOf("track", TrackPath)),
     Place(SpanOf("track", TrackPath), SpanOf("track", OtherTrackPath)),
     Place(SpanOf("track", TrackPath), SpanOf("entity", EntityName))}

\* the places of the run: what is added, and what n calls of processLinks
\* make of it
RECURSIVE PlacesAfter(_)
PlacesAfter(n) ==
    IF n = 0 THEN Additions
    ELSE LET before == PlacesAfter(n - 1)
         IN  before \cup {processLinks(<<p>>, i)[1] : p \in before, i \in {NoIndex, SiteIndex}}

\* processLinks tabulated over the places of the run and the two states of
\* the index, so that whether a call can go on is answered by a lookup
RunOf ==
    [p \in PlacesAfter(3), loaded \in BOOLEAN |->
        processLinks(<<p>>, IF loaded THEN SiteIndex ELSE NoIndex)[1]]

\* the script is loaded on a document with or without a span
LinkInit ==
    /\ dom \in {<<>>} \cup {<<p>> : p \in Additions}
    /\ searchIndex = NoIndex
    /\ debounceTimer = "none"
    /\ records = <<>>
    /\ lpc = [observing |-> FALSE, titleLinked |-> FALSE, calls |-> 0]
    /\ hist = [added |-> 0, timers |-> 0, runs |-> 0]
    /\ MechIdle
    /\ QueryIdle
    /\ CalloutIdle
    /\ BlockIdle
    /\ MarkdownIdle

\* init(): processLinks() is called and waits for the index, the title is
\* made a link, and the observer is started on the body
init ==
    /\ ~lpc.observing
    /\ lpc' = [observing |-> TRUE, titleLinked |-> TRUE, calls |-> lpc.calls + 1]
    /\ UNCHANGED <<dom, searchIndex, debounceTimer, records, hist>>
    /\ UNCHANGED <<mechVars, queryVars, calloutVars, blockVars, markdownVars>>

\* the page adds an element to the body: one record for the observer
AddSpans ==
    /\ lpc.observing
    /\ records = <<>>
    /\ hist.added < MaxBursts
    /\ \E p \in Additions :
           /\ dom' = Append(dom, p)
           /\ records' = <<[at |-> Len(dom) + 1, level |-> "outer", own |-> FALSE]>>
    /\ hist' = [hist EXCEPT !.added = @ + 1]
    /\ UNCHANGED <<searchIndex, debounceTimer, lpc>>
    /\ UNCHANGED <<mechVars, queryVars, calloutVars, blockVars, markdownVars>>

\* the callback of the MutationObserver: with a target among the added
\* nodes the timer is cleared and set
ObserverCallback ==
    /\ records # <<>>
    /\ LET hasTargets == \E k \in 1..Len(records) : HasTargets(dom, records[k])
       IN  /\ debounceTimer' = IF hasTargets THEN "set" ELSE debounceTimer
           /\ hist' = IF hasTargets THEN [hist EXCEPT !.timers = @ + 1] ELSE hist
    /\ records' = <<>>
    /\ UNCHANGED <<dom, searchIndex, lpc>>
    /\ UNCHANGED <<mechVars, queryVars, calloutVars, blockVars, markdownVars>>

\* the timer runs out: processLinks is called and waits for the index
TimerFires ==
    /\ debounceTimer = "set"
    /\ records = <<>>
    /\ debounceTimer' = "none"
    /\ lpc' = [lpc EXCEPT !.calls = @ + 1]
    /\ hist' = [hist EXCEPT !.runs = @ + 1]
    /\ UNCHANGED <<dom, searchIndex, records>>
    /\ UNCHANGED <<mechVars, queryVars, calloutVars, blockVars, markdownVars>>

\* a call of processLinks goes on behind `await loadSearchIndex()`: the
\* index is the one loaded before, or the fetch has succeeded or failed;
\* then both loops run, and the anchors put in are recorded
ResumeProcessLinks ==
    /\ lpc.calls > 0
    /\ records = <<>>
    /\ \E ok \in BOOLEAN :
           searchIndex' = IF searchIndex.loaded \/ ~ok THEN searchIndex ELSE SiteIndex
    /\ dom' = [k \in 1..Len(dom) |-> RunOf[dom[k], searchIndex'.loaded]]
    /\ records' = AddedAnchors(dom, dom', 1)
    /\ lpc' = [lpc EXCEPT !.calls = @ - 1]
    /\ UNCHANGED <<debounceTimer, hist>>
    /\ UNCHANGED <<mechVars, queryVars, calloutVars, blockVars, markdownVars>>

ScriptStep == init \/ ObserverCallback \/ TimerFires \/ ResumeProcessLinks

LinkNext == ScriptStep \/ AddSpans

\* the browser runs the script's tasks: a callback, a timer or a call that
\* can go on does go on
SpecLinks == LinkInit /\ [][LinkNext]_vars /\ WF_vars(ScriptStep)

-----------------------------------------------------------------------------
(* Claims about the link fixer.                                            *)

\* nothing of the script is under way
LinkQuiet ==
    /\ lpc.observing
    /\ records = <<>>
    /\ debounceTimer = "none"
    /\ lpc.calls = 0

\* a span that processLinks replaces as the index is
Resolvable(el) ==
    \/ IsSpanOf(el, "track") /\ Len(el.path) > 0
    \/ IsSpanOf(el, "entity") /\ Len(EntityHref(el.path, searchIndex)) > 0

\* C30: the changes processLinks makes never schedule another run of it;
\* after elements were added from outside the observer runs processLinks
\* once for them at most; every span with a path that can be resolved is
\* replaced by an anchor exactly once; and the script comes to rest and
\* stays at rest until elements are added from outside.
C30_OneRunThenIdle ==
    /\ [][(records # <<>> /\ \A k \in 1..Len(records) : records[k].own) =>
              hist'.timers = hist.timers]_vars
    /\ [](hist.runs + (IF debounceTimer = "set" THEN 1 ELSE 0) <= hist.added)
    /\ [](\A k \in 1..Len(dom) : dom[k].outer.times <= 1 /\ dom[k].inner.times <= 1)
    /\ [](LinkQuiet => \A k \in 1..Len(dom) : ~Resolvable(dom[k].outer) /\ ~Resolvable(dom[k].inner))
    /\ [][(LinkQuiet /\ hist'.added = hist.added) => LinkQuiet']_vars
    /\ <>[]LinkQuiet

\* the anchor at the place holds a track or entity span: the copy of a
\* span that was inside the span the anchor replaced
HoldsSpan(place) ==
    /\ place.outer.tag = "a"
    /\ IsSpanOf(place.inner, "track") \/ IsSpanOf(place.inner, "entity")

\* the anchors that have taken over an element with a path
TakenOver ==
    {k \in 1..Len(dom) : dom[k].outer.tag = "a" /\ dom[k].inner.kind \in {"track", "entity"}}

\* C30: as above, except that the changes of processLinks schedule another
\* run exactly when an anchor it has put in still holds a span, which the
\* next run replaces: processLinks runs once for the elements added from
\* outside and at most once more for every anchor that has taken over an
\* element with a path.
C30_RunsAgainForSpansInAnchors ==
    /\ [][(records # <<>> /\ \A k \in 1..Len(records) : records[k].own) =>
              (hist'.timers # hist.timers <=>
                   \E k \in 1..Len(records) :
                       records[k].level = "outer" /\ HoldsSpan(dom[records[k].at]))]_vars
    /\ [](hist.runs + (IF debounceTimer = "set" THEN 1 ELSE 0)
              <= hist.added + Cardinality(TakenOver))
    /\ [](\A k \in 1..Len(dom) : dom[k].outer.times <= 1 /\ dom[k].inner.times <= 1)
    /\ [](LinkQuiet => \A k \in 1..Len(dom) : ~Resolvable(dom[k].outer) /\ ~Resolvable(dom[k].inner))
    /\ [][(LinkQuiet /\ hist'.added = hist.added) => LinkQuiet']_vars
    /\ <>[]LinkQuiet

\* C30 witness: two spans were added one after the other, the timer was
\* set twice and has run out once, both spans are anchors, replaced once,
\* and the script is at rest
C30_Witness ==
    /\ LinkQuiet
    /\ hist = [added |-> 2, timers |-> 2, runs |-> 1]
    /\ Len(dom) = 2
    /\ \A k \in 1..2 : dom[k].outer.tag = "a" /\ dom[k].outer.times = 1 /\ dom[k].inner = NoElement
    /\ dom[2].outer.href = <<"n", "p", "c", "s", "/", "k", "a", "y", ".", "h", "t", "m", "l">>
    /\ dom[2].outer.path = EntityName

=============================================================================
